---- MODULE Spec2Model ----
(***************************************************************************)
(* Model of the statement aggregation engine of monobot: the per-token     *)
(* rate limiter, the paginating statement fetcher, the permission          *)
(* resolver, the ignore-list filter and the two aggregation handlers       *)
(* (show_payments_for_period, generate_and_send_statement).                *)
(***************************************************************************)
EXTENDS Integers, Sequences, FiniteSets, TLC

VARIABLES
    users,              \* table users: id -> [role, max_days]
    accounts,           \* table accounts: id -> row
    organizations,      \* table organizations: id -> row
    user_accounts,      \* table user_accounts: <<user_id, account_id>> -> permissions
    ignore_counter_iban,\* table ignore_counter_iban: the set of iban_norm values
    avail,              \* the last call of get_available_accounts_for_user
    fetch_in,           \* the arguments of a call of fetch_statement and the provider
    fetch_out,          \* what that call returned or raised
    filter_in,          \* the arguments of a call of filter_income_and_ignore
    filter_out,         \* what that call returned
    req,                \* the aggregation request being handled
    pc,                 \* where its handler is
    loc,                \* the handler's local variables
    replies,            \* the messages and documents sent to the user
    action_log,         \* the calls of log_user_action
    events,             \* the statement fetches and limiter marks of the request
    raised,             \* the exception that left the handler ("" for none)
    clock,      \* time.time(), in ticks of 1/TicksPerSec second
    bot_data,   \* context.application.bot_data: token -> last statement call (ticks)
    wait_ret,   \* the last call of get_statement_wait_left: its token, the time of
                \* the call, the entry of bot_data it read and the seconds it returned
    perm_call,  \* a permission value and what the two normalizers made of it
    perm_granted, \* <<user_id, account_id>> -> the value last written for the grant
    tz,         \* the time zone of the process (what datetime.fromtimestamp uses)
    user_data,  \* context.user_data of every chat: the step of its dialog
    upd,        \* the last update a dialog handler processed and what it did
    xlsx,       \* a call of write_xlsx: its rows and the sheet it wrote
    tasks       \* the handler tasks of the Application: which one runs, where each
                \* is, and the limiter calls and fetches they made

limVars == <<clock, bot_data, wait_ret>>
dbVars == <<users, accounts, organizations, user_accounts, ignore_counter_iban>>

fetchVars == <<fetch_in, fetch_out>>
filterVars == <<filter_in, filter_out>>
aggVars == <<req, pc, loc, replies, action_log, events, raised>>
permVars == <<perm_call, perm_granted>>
chatVars == <<user_data, upd>>
hostVars == <<tz, tasks, chatVars, xlsx>>

vars == <<users, accounts, organizations, user_accounts, ignore_counter_iban,
          avail, fetch_in, fetch_out, filter_in, filter_out,
          req, pc, loc, replies, action_log, events, raised,
          clock, bot_data, wait_ret, perm_call, perm_granted, tz, user_data, upd, xlsx,
          tasks>>

(***************************************************************************)
(* Bounds of the model                                                     *)
(***************************************************************************)
\* resolution of the clock: ticks per second (time.time() is fractional)
TicksPerSec == 2
\* the instants the clock is observed at: every multiple of CoarseSec seconds
\* up to MaxClock seconds, and up to MaxFine ticks before and after it
CoarseSec == 15
MaxFine == 1
MaxClock == 61

\* bot.py:77
STATEMENT_MIN_INTERVAL == 60

Tokens == {"t1", "t2"}

(***************************************************************************)
(* Rate limiter (bot.py:289-317)                                           *)
(***************************************************************************)
\* int(x) of a non-negative quotient num/den: truncation
IntTrunc(num, den) == num \div den

\* the value a ceiling would give (used to state the claims, not by the code)
CeilDiv(num, den) == (num + den - 1) \div den

\* get_statement_wait_left without "if elapsed >= STATEMENT_MIN_INTERVAL: return 0"
WaitLeftNoIntervalCheck(data, token, now) ==
    IF token \notin DOMAIN data THEN 0
    ELSE IntTrunc(STATEMENT_MIN_INTERVAL * TicksPerSec - (now - data[token]),
                  TicksPerSec)

\* get_statement_wait_left(context, token) at time now
get_statement_wait_left(data, token, now) ==
    IF token \notin DOMAIN data THEN 0
    ELSE LET elapsed == now - data[token]
         IN IF elapsed >= STATEMENT_MIN_INTERVAL * TicksPerSec THEN 0
            ELSE IntTrunc(STATEMENT_MIN_INTERVAL * TicksPerSec - elapsed, TicksPerSec)

\* mark_statement_call replacing the whole record by the marked token's entry
MarkForgetsOthers(data, token, now) == [t \in {token} |-> now]

\* mark_statement_call(context, token) at time now
mark_statement_call(data, token, now) ==
    [t \in DOMAIN data \cup {token} |-> IF t = token THEN now ELSE data[t]]


(***************************************************************************)
(* Permission strings (bot.py:100-161, db.py:12-34)                        *)
(*                                                                         *)
(* A permission value is the sequence of its comma-separated chunks; the   *)
(* empty sequence stands for NULL and for the empty string.                *)
(***************************************************************************)
Chunks == {"in", "out", "balance", "full", " OUT ", "x", ""}

\* chunk.strip().lower()
StripLower(chunk) == IF chunk = " OUT " THEN "out" ELSE chunk

\* {chunk.strip().lower() for chunk in value.split(",") if chunk.strip()}
TokensOf(value) == { StripLower(value[i]) : i \in DOMAIN value } \ {""}

\* _permissions_from_value without "if not perms: perms = {'in'}"
PermissionsFromValueNoDefault(value, ensure_income) ==
    LET perms == IF value = << >> THEN {}
                 ELSE IF "full" \in TokensOf(value) THEN {"in", "out", "balance"}
                 ELSE TokensOf(value) \cap {"in", "out", "balance"}
    IN IF ensure_income THEN perms \cup {"in"} ELSE perms

\* _permissions_from_value(value, ensure_income=...)
permissions_from_value(value, ensure_income) ==
    LET perms == IF value = << >> THEN {}
                 ELSE IF "full" \in TokensOf(value) THEN {"in", "out", "balance"}
                 ELSE TokensOf(value) \cap {"in", "out", "balance"}
        coerced == IF perms = {} THEN {"in"} ELSE perms
    IN IF ensure_income THEN coerced \cup {"in"} ELSE coerced

\* _permissions_string_from_set(perms)
permissions_string_from_set(perms) ==
    LET ordered == SelectSeq(<<"in", "out", "balance">>, LAMBDA k : k \in perms)
    IN IF ordered = << >> THEN <<"in">> ELSE ordered

\* db.normalize_permissions_value(value)
normalize_permissions_value(value) ==
    IF value = << >> THEN <<"in">>
    ELSE LET valid == SelectSeq(<<"in", "out">>, LAMBDA k : k \in TokensOf(value))
         IN IF valid = << >> THEN <<"in">>
            ELSE IF Len(valid) = 2 THEN <<"in", "out">>
            ELSE <<valid[1]>>

\* db.grant_account_to_user: INSERT IGNORE ... VALUES (user_id, account_id, "in")
grant_account_to_user(ua, user_id, account_id) ==
    [k \in DOMAIN ua \cup {<<user_id, account_id>>} |->
        IF k \in DOMAIN ua THEN ua[k] ELSE <<"in">>]

\* db.revoke_account_from_user: DELETE ... WHERE user_id AND account_id
revoke_account_from_user(ua, user_id, account_id) ==
    [k \in DOMAIN ua \ {<<user_id, account_id>>} |-> ua[k]]

\* db.update_user_account_permissions: UPDATE ... SET permissions = normalized;
\* rowcount counts the rows the UPDATE changed
update_user_account_permissions(ua, user_id, account_id, permissions) ==
    LET normalized == normalize_permissions_value(permissions)
        k == <<user_id, account_id>>
    IN [table |-> [j \in DOMAIN ua |-> IF j = k THEN normalized ELSE ua[j]],
        success |-> k \in DOMAIN ua /\ ua[k] # normalized]

\* _attach_access_metadata(account, perms)
attach_access_metadata(account, perms) ==
    LET acc_perms == IF perms = {} THEN {"in"} ELSE perms
    IN [id |-> account.id, organization_id |-> account.organization_id,
        name |-> account.name, is_active |-> account.is_active,
        mono_account_id |-> account.mono_account_id,
        access_permissions |-> acc_perms,
        permissions |-> permissions_string_from_set(acc_perms)]

(***************************************************************************)
(* Transactions and counter-party IBANs                                    *)
(*                                                                         *)
(* An IBAN is a sequence of characters; the empty sequence is a missing    *)
(* or empty counterIban. amount_ok says whether int(item["amount"])        *)
(* succeeds.                                                               *)
(***************************************************************************)
LowerChar(c) == IF c = "U" THEN "u" ELSE IF c = "A" THEN "a" ELSE c

\* str.lower()
Lower(str) == [i \in DOMAIN str |-> LowerChar(str[i])]

IbanUpper1 == <<"U", "A", "1">>
IbanLower1 == <<"u", "a", "1">>
IbanUpper2 == <<"U", "A", "2">>
NoIban == << >>

Tx(id, time, amount, iban) ==
    [id |-> id, time |-> time, amount |-> amount, amount_ok |-> TRUE,
     counterIban |-> iban, comment |-> ""]

(***************************************************************************)
(* Ignore-list filter (monobank_api.py:59-97)                              *)
(***************************************************************************)
\* filter_income_and_ignore comparing the counter IBAN without .lower()
RECURSIVE FilterLoopNoLower(_, _, _, _, _, _)
FilterLoopNoLower(items, ignore_ibans_norm, allow_in, allow_out, result, flows) ==
    IF items = << >> THEN [result |-> result, flows |-> flows]
    ELSE LET it == Head(items)
             rest == Tail(items)
         IN IF ~it.amount_ok \/ it.amount = 0
                \/ (it.counterIban # << >> /\ it.counterIban \in ignore_ibans_norm)
            THEN FilterLoopNoLower(rest, ignore_ibans_norm, allow_in, allow_out,
                                   result, flows)
            ELSE IF it.amount > 0
            THEN IF ~allow_in
                 THEN FilterLoopNoLower(rest, ignore_ibans_norm, allow_in, allow_out,
                                        result, flows)
                 ELSE FilterLoopNoLower(rest, ignore_ibans_norm, allow_in, allow_out,
                                        Append(result, it), flows \cup {"in"})
            ELSE IF ~allow_out
                 THEN FilterLoopNoLower(rest, ignore_ibans_norm, allow_in, allow_out,
                                        result, flows)
                 ELSE FilterLoopNoLower(rest, ignore_ibans_norm, allow_in, allow_out,
                                        Append(result, it), flows \cup {"out"})

\* filter_income_and_ignore without "if amount == 0: continue"
RECURSIVE FilterLoopKeepZero(_, _, _, _, _, _)
FilterLoopKeepZero(items, ignore_ibans_norm, allow_in, allow_out, result, flows) ==
    IF items = << >> THEN [result |-> result, flows |-> flows]
    ELSE LET it == Head(items)
             rest == Tail(items)
             counter_iban == Lower(it.counterIban)
         IN IF ~it.amount_ok
                \/ (counter_iban # << >> /\ counter_iban \in ignore_ibans_norm)
                \/ (it.amount > 0 /\ ~allow_in)
                \/ (it.amount <= 0 /\ ~allow_out)
            THEN FilterLoopKeepZero(rest, ignore_ibans_norm, allow_in, allow_out,
                                    result, flows)
            ELSE FilterLoopKeepZero(rest, ignore_ibans_norm, allow_in, allow_out,
                                    Append(result, it),
                                    flows \cup {IF it.amount > 0 THEN "in" ELSE "out"})

\* the for loop of filter_income_and_ignore over the remaining items
RECURSIVE FilterLoop(_, _, _, _, _, _)
FilterLoop(items, ignore_ibans_norm, allow_in, allow_out, result, flows) ==
    IF items = << >> THEN [result |-> result, flows |-> flows]
    ELSE LET it == Head(items)
             rest == Tail(items)
             counter_iban == Lower(it.counterIban)
         IN IF ~it.amount_ok
            THEN FilterLoop(rest, ignore_ibans_norm, allow_in, allow_out, result, flows)
            ELSE IF it.amount = 0
            THEN FilterLoop(rest, ignore_ibans_norm, allow_in, allow_out, result, flows)
            ELSE IF counter_iban # << >> /\ counter_iban \in ignore_ibans_norm
            THEN FilterLoop(rest, ignore_ibans_norm, allow_in, allow_out, result, flows)
            ELSE IF it.amount > 0
            THEN IF ~allow_in
                 THEN FilterLoop(rest, ignore_ibans_norm, allow_in, allow_out,
                                 result, flows)
                 ELSE FilterLoop(rest, ignore_ibans_norm, allow_in, allow_out,
                                 Append(result, it), flows \cup {"in"})
            ELSE IF ~allow_out
                 THEN FilterLoop(rest, ignore_ibans_norm, allow_in, allow_out,
                                 result, flows)
                 ELSE FilterLoop(rest, ignore_ibans_norm, allow_in, allow_out,
                                 Append(result, it), flows \cup {"out"})

\* filter_income_and_ignore that consumes the first item without looking at it
FilterSkippingFirst(items, ignore_ibans_norm, allow_in, allow_out) ==
    FilterLoop(IF items = << >> THEN items ELSE Tail(items),
               ignore_ibans_norm, allow_in, allow_out, << >>, {})

\* filter_income_and_ignore returning the allowed flows as included flows
FilterReportsAllowedFlows(items, ignore_ibans_norm, allow_in, allow_out) ==
    [result |-> FilterLoop(items, ignore_ibans_norm, allow_in, allow_out,
                           << >>, {}).result,
     flows |-> (IF allow_in THEN {"in"} ELSE {}) \cup (IF allow_out THEN {"out"} ELSE {})]

\* filter_income_and_ignore(items, ignore_ibans_norm, allow_in, allow_out)
filter_income_and_ignore(items, ignore_ibans_norm, allow_in, allow_out) ==
    FilterLoop(items, ignore_ibans_norm, allow_in, allow_out, << >>, {})

(***************************************************************************)
(* Statement fetcher (monobank_api.py:20-56)                               *)
(*                                                                         *)
(* The provider holds the history of an account, newest first, and answers *)
(* a query with the PageCap most recent transactions inside the window.    *)
(***************************************************************************)
\* the provider's page size (500 in monobank_api.py:46), scaled down
PageCap == 2

\* e.response.status_code == 429 (bot.py:2001)
HTTP_TOO_MANY == 429
\* the statuses r.raise_for_status() raises HTTPError for in the model
ProviderStatuses == {HTTP_TOO_MANY, 500}

\* the provider's answer to GET statement/{account}/{from_ts}/{to_ts}
ProviderPage(history, from_ts, to_ts) ==
    LET inside == SelectSeq(history, LAMBDA it : from_ts <= it.time /\ it.time <= to_ts)
    IN IF Len(inside) <= PageCap THEN inside ELSE SubSeq(inside, 1, PageCap)

\* the provider behind the statement URL: the bank answers from the
\* account's history; a scripted provider (a test stub) answers its n-th call
\* with its n-th batch, whatever the window asked for
HistoryProvider(history) ==
    [scripted |-> FALSE, history |-> history, batches |-> << >>]

StubProvider(batches) ==
    [scripted |-> TRUE, history |-> << >>, batches |-> batches]

\* batch = r.json() of the n-th call of one fetch
ProviderAnswer(provider, n, from_ts, to_ts) ==
    IF provider.scripted
    THEN IF n <= Len(provider.batches) THEN provider.batches[n] ELSE << >>
    ELSE ProviderPage(provider.history, from_ts, to_ts)

MinTime(batch) ==
    CHOOSE t \in { batch[i].time : i \in DOMAIN batch } :
        \A i \in DOMAIN batch : t <= batch[i].time

\* the while loop of fetch_statement leaving a short batch out of all_items
RECURSIVE FetchLoopDropsShortBatch(_, _, _, _, _, _, _)
FetchLoopDropsShortBatch(provider, from_ts, current_to, all_items, calls, fail_at, status) ==
    IF Len(calls) + 1 = fail_at
    THEN [raised |-> TRUE, status |-> status, items |-> << >>,
          calls |-> Append(calls, <<from_ts, current_to>>)]
    ELSE LET batch == ProviderAnswer(provider, Len(calls) + 1, from_ts, current_to)
             called == Append(calls, <<from_ts, current_to>>)
             done(items) == [raised |-> FALSE, status |-> 0, items |-> items,
                             calls |-> called]
         IN IF Len(batch) < PageCap THEN done(all_items)
            ELSE IF MinTime(batch) <= from_ts THEN done(all_items \o batch)
            ELSE FetchLoopDropsShortBatch(provider, from_ts, MinTime(batch) - 1,
                                          all_items \o batch, called, fail_at, status)

\* the while loop of fetch_statement moving the window's end to last_time
\* instead of last_time - 1 (it stops when that leaves the window as it was)
RECURSIVE FetchLoopInclusiveBoundary(_, _, _, _, _, _, _)
FetchLoopInclusiveBoundary(provider, from_ts, current_to, all_items, calls, fail_at, status) ==
    IF Len(calls) + 1 = fail_at
    THEN [raised |-> TRUE, status |-> status, items |-> << >>,
          calls |-> Append(calls, <<from_ts, current_to>>)]
    ELSE LET batch == ProviderAnswer(provider, Len(calls) + 1, from_ts, current_to)
             called == Append(calls, <<from_ts, current_to>>)
             done(items) == [raised |-> FALSE, status |-> 0, items |-> items,
                             calls |-> called]
         IN IF batch = << >> THEN done(all_items)
            ELSE IF Len(batch) < PageCap THEN done(all_items \o batch)
            ELSE IF MinTime(batch) <= from_ts \/ MinTime(batch) = current_to
            THEN done(all_items \o batch)
            ELSE FetchLoopInclusiveBoundary(provider, from_ts, MinTime(batch),
                                            all_items \o batch, called, fail_at, status)

\* the while loop of fetch_statement returning the pages received so far
\* when the provider rejects a call
RECURSIVE FetchLoopReturnsPartial(_, _, _, _, _, _, _)
FetchLoopReturnsPartial(provider, from_ts, current_to, all_items, calls, fail_at, status) ==
    IF Len(calls) + 1 = fail_at
    THEN [raised |-> FALSE, status |-> 0, items |-> all_items,
          calls |-> Append(calls, <<from_ts, current_to>>)]
    ELSE LET batch == ProviderAnswer(provider, Len(calls) + 1, from_ts, current_to)
             called == Append(calls, <<from_ts, current_to>>)
             done(items) == [raised |-> FALSE, status |-> 0, items |-> items,
                             calls |-> called]
         IN IF batch = << >> THEN done(all_items)
            ELSE IF Len(batch) < PageCap THEN done(all_items \o batch)
            ELSE IF MinTime(batch) <= from_ts THEN done(all_items \o batch)
            ELSE FetchLoopReturnsPartial(provider, from_ts, MinTime(batch) - 1,
                                         all_items \o batch, called, fail_at, status)

\* the while loop of fetch_statement; fail_at is the number of the call the
\* provider rejects with the given status (0: it rejects none)
RECURSIVE FetchLoop(_, _, _, _, _, _, _)
FetchLoop(provider, from_ts, current_to, all_items, calls, fail_at, status) ==
    IF Len(calls) + 1 = fail_at
    THEN [raised |-> TRUE, status |-> status, items |-> << >>,
          calls |-> Append(calls, <<from_ts, current_to>>)]
    ELSE LET batch == ProviderAnswer(provider, Len(calls) + 1, from_ts, current_to)
             called == Append(calls, <<from_ts, current_to>>)
             done(items) == [raised |-> FALSE, status |-> 0, items |-> items,
                             calls |-> called]
         IN IF batch = << >> THEN done(all_items)
            ELSE IF Len(batch) < PageCap THEN done(all_items \o batch)
            ELSE IF MinTime(batch) <= from_ts THEN done(all_items \o batch)
            ELSE FetchLoop(provider, from_ts, MinTime(batch) - 1, all_items \o batch,
                           called, fail_at, status)

\* fetch_statement(token, account_id, from_ts, to_ts)
fetch_statement(provider, from_ts, to_ts, fail_at, status) ==
    FetchLoop(provider, from_ts, to_ts, << >>, << >>, fail_at, status)

(***************************************************************************)
(* The store (db.py)                                                       *)
(***************************************************************************)
UserIds == {1, 2, 3, 4}
AccountIds == {1, 2, 3}
OrgIds == {1, 2}

\* the organization of each account: accounts 1 and 2 share one token
OrgOf(a) == IF a = 3 THEN 2 ELSE 1
\* the rank of the account's name in ORDER BY name (not the order of the ids)
NameOf(a) == IF a = 1 THEN 2 ELSE IF a = 2 THEN 1 ELSE 3

AccountRow(a, active) ==
    [id |-> a, organization_id |-> OrgOf(a), name |-> NameOf(a),
     is_active |-> active, mono_account_id |-> a]

\* the rows of a set, ORDER BY name
RECURSIVE OrderByName(_)
OrderByName(rows) ==
    IF rows = {} THEN << >>
    ELSE LET first == CHOOSE r \in rows : \A q \in rows : r.name <= q.name
         IN <<first>> \o OrderByName(rows \ {first})

\* db.list_all_active_accounts()
list_all_active_accounts(accts) ==
    OrderByName({ accts[a] : a \in { x \in DOMAIN accts : accts[x].is_active } })

\* get_accounts_for_user without the a.is_active = 1 condition
GetAccountsForUserAnyState(accts, ua, user_id) ==
    OrderByName({ [id |-> accts[a].id, organization_id |-> accts[a].organization_id,
                   name |-> accts[a].name, is_active |-> accts[a].is_active,
                   mono_account_id |-> accts[a].mono_account_id,
                   permissions |-> ua[<<user_id, a>>]] :
                  a \in { x \in DOMAIN accts : <<user_id, x>> \in DOMAIN ua } })

\* db.get_accounts_for_user(user_id): accounts JOIN user_accounts
get_accounts_for_user(accts, ua, user_id) ==
    OrderByName({ [id |-> accts[a].id, organization_id |-> accts[a].organization_id,
                   name |-> accts[a].name, is_active |-> accts[a].is_active,
                   mono_account_id |-> accts[a].mono_account_id,
                   permissions |-> ua[<<user_id, a>>]] :
                  a \in { x \in DOMAIN accts :
                            /\ <<user_id, x>> \in DOMAIN ua
                            /\ accts[x].is_active } })

\* db.get_user_account_permissions_map(user_id)
get_user_account_permissions_map(ua, user_id) ==
    [a \in { x \in AccountIds : <<user_id, x>> \in DOMAIN ua } |->
        normalize_permissions_value(ua[<<user_id, a>>])]

\* every active account for every role, as the admin branch without grants
GetAvailableAllActive(accts, ua, user_row) ==
    LET rows == list_all_active_accounts(accts)
    IN [i \in DOMAIN rows |-> attach_access_metadata(rows[i], {"in"})]

\* bot.get_available_accounts_for_user(user_row)
get_available_accounts_for_user(accts, ua, user_row) ==
    IF user_row.role = "admin"
    THEN LET perm_map == get_user_account_permissions_map(ua, user_row.id)
             rows == list_all_active_accounts(accts)
         IN [i \in DOMAIN rows |->
                attach_access_metadata(rows[i],
                    permissions_from_value(
                        IF rows[i].id \in DOMAIN perm_map THEN perm_map[rows[i].id]
                        ELSE << >>, FALSE))]
    ELSE LET rows == get_accounts_for_user(accts, ua, user_row.id)
         IN [i \in DOMAIN rows |->
                attach_access_metadata(rows[i],
                    permissions_from_value(rows[i].permissions, FALSE))]

DbEmpty ==
    /\ users = << >>
    /\ accounts = << >>
    /\ organizations = << >>
    /\ user_accounts = << >>
    /\ ignore_counter_iban = {}

NoAvail == [called |-> FALSE, user_id |-> 0, result |-> << >>]

NoLoc == [accounts |-> << >>, org_cache |-> << >>, ignore_ibans |-> {}, idx |-> 0,
          max_wait_left |-> 0, token |-> "", fetched |-> << >>,
          filtered_items |-> << >>, included_flows |-> {}, all_lines |-> << >>,
          total_ops |-> 0,
          first_block |-> TRUE, prev_org_id |-> 0, rows |-> << >>]

\* two updates wait in the Application's queue
Handlers == {1, 2}
NoTasks == [running |-> 0, pc |-> [h \in Handlers |-> "queued"], log |-> << >>]

\* no update was processed yet and no chat has a dialog open
NoUpdate == [handler |-> "", sender |-> 0, role |-> "", data |-> << >>,
             executed |-> {}, before |-> << >>, reply |-> "", raised |-> ""]
\* write_xlsx was not called
NoSheet == [rows |-> << >>, done |-> FALSE, sheet |-> << >>]
ChatIdle ==
    /\ user_data = << >>
    /\ upd = NoUpdate
    /\ xlsx = NoSheet

AggIdle ==
    /\ ChatIdle
    /\ req = [mode |-> "payments", user_id |-> 0, key_kind |-> "all", key_id |-> 0,
              from_ts |-> 0, to_ts |-> 0]
    /\ pc = "idle"
    /\ loc = NoLoc
    /\ tz = "UTC"
    /\ tasks = NoTasks
    /\ replies = << >>
    /\ action_log = << >>
    /\ events = << >>
    /\ raised = ""

NoFetchOut == [done |-> FALSE, raised |-> FALSE, status |-> 0, items |-> << >>,
               calls |-> << >>]
FetchIdle ==
    /\ fetch_in = [provider |-> HistoryProvider(<< >>), from_ts |-> 0, to_ts |-> 0,
                   fail_at |-> 0, status |-> 0]
    /\ fetch_out = NoFetchOut

NoPermCall == [done |-> FALSE, value |-> << >>, ensure_income |-> FALSE,
               perms |-> {}, text |-> << >>, normalized |-> << >>]
PermIdle ==
    /\ perm_call = NoPermCall
    /\ perm_granted = << >>

NoFilterOut == [done |-> FALSE, result |-> << >>, flows |-> {}]
FilterIdle ==
    /\ filter_in = [items |-> << >>, ignore_ibans_norm |-> {}, allow_in |-> TRUE,
                    allow_out |-> FALSE]
    /\ filter_out = NoFilterOut


(***************************************************************************)
(* The aggregation handlers (bot.py:1863-2059 show_payments_for_period,    *)
(* bot.py:2258-2460 generate_and_send_statement)                           *)
(***************************************************************************)
\* bot.py:1898
SECONDS_PER_DAY == 86400

\* the longest time one call of fetch_statement takes, in ticks
MaxFetchTicks == 1
\* the provider may reject any of the first MaxFailAt calls of a fetch
MaxFailAt == 2

\* Translator.t(key, *positional, **kwargs): t accepts the key alone as a
\* positional argument, a call with one more raises TypeError
translator_t(key, positional) ==
    [raised |-> positional # << >>, text |-> key]

\* user_has_unlimited_days(user_row)
user_has_unlimited_days(user_row) ==
    user_row.role \in {"admin", "accountant"} \/ user_row.max_days <= 0

\* (to_ts - from_ts) / 86400.0 > max_days + 1e-6, in integers
period_exceeds_limit(from_ts, to_ts, max_days) ==
    LET excess == to_ts - from_ts - max_days * SECONDS_PER_DAY
    IN excess > 0 /\ (excess > 864 \/ excess * 10000 > 864)

\* db.get_ignore_ibans_norm()
get_ignore_ibans_norm(table) == { iban \in table : iban # << >> }

NoOrg == [id |-> 0, name |-> 0, token |-> "", is_active |-> FALSE, exists |-> FALSE]

\* db.get_organization_by_id(org_id)
get_organization_by_id(orgs, org_id) ==
    IF org_id \in DOMAIN orgs
    THEN [id |-> orgs[org_id].id, name |-> orgs[org_id].name,
          token |-> orgs[org_id].token, is_active |-> orgs[org_id].is_active,
          exists |-> TRUE]
    ELSE NoOrg

\* org_cache after the first loop over the accounts
org_cache_of(selected, orgs) ==
    [o \in { selected[i].organization_id : i \in DOMAIN selected } |->
        get_organization_by_id(orgs, o)]

\* the two conditions without the test of is_active
OrgUsableAlsoInactive(org) == org.exists /\ org.token # ""

\* not (not org or not org.get("is_active")) and token
org_usable(org) == org.exists /\ org.is_active /\ org.token # ""

\* tokens: the tokens of the selected accounts' usable organizations
collect_tokens(selected, cache) ==
    { cache[selected[i].organization_id].token :
        i \in { j \in DOMAIN selected : org_usable(cache[selected[j].organization_id]) } }

MaxOf(S) == CHOOSE m \in S : \A x \in S : x <= m

\* max(get_statement_wait_left(context, token) for token in tokens)
max_wait_left(tokens, data, now) ==
    MaxOf({ get_statement_wait_left(data, t, now) : t \in tokens })

\* sorted(filtered_items, key=lambda x: int(x.get("time", 0))): stable
RECURSIVE SortByTimeInto(_, _)
SortByTimeInto(items, sorted) ==
    IF items = << >> THEN sorted
    ELSE LET x == Head(items)
             k == Cardinality({ i \in DOMAIN sorted : sorted[i].time <= x.time })
         IN SortByTimeInto(Tail(items),
                SubSeq(sorted, 1, k) \o <<x>> \o SubSeq(sorted, k + 1, Len(sorted)))

sorted_by_time(items) == SortByTimeInto(items, << >>)

\* _flows_to_payments_label(perms, translator)
flows_to_payments_label(perms) ==
    LET flows == IF perms \cap {"in", "out"} = {} THEN {"in"}
                 ELSE perms \cap {"in", "out"}
    IN IF "in" \in flows /\ "out" \in flows THEN "flows.in_out"
       ELSE IF "out" \in flows /\ "in" \notin flows THEN "flows.out"
       ELSE "flows.in"

Msg(kind) == [kind |-> kind, seconds |-> 0, lines |-> << >>, rows |-> << >>]

LogEntry(result, output) ==
    [user_id |-> req.user_id, action_name |-> req.mode, result |-> result,
     output |-> output, written |-> TRUE]

\* log_user_action(user_id, action_name, result, params, output): the row is
\* inserted, or the store raises and no row is written (ok = FALSE)
log_user_action(result, output, ok) ==
    [entry |-> [LogEntry(result, output) EXCEPT !.written = ok],
     raised |-> IF ok THEN "" ELSE "Exception"]

\* log_action without the try/except around log_user_action
LogActionNoCatch(result, output, ok) == log_user_action(result, output, ok)

\* log_action(result, output): try: log_user_action(...)
\*                              except Exception: logging.exception(...)
log_action(result, output, ok) ==
    [log_user_action(result, output, ok) EXCEPT !.raised = ""]

Event(kind, account, token, at, calls) ==
    [kind |-> kind, account |-> account, token |-> token, at |-> at, calls |-> calls]

\* the handler returns after a reply and a call of log_action
ReplyLogReturn(msg, result, output) ==
    /\ pc' = "done"
    /\ replies' = Append(replies, msg)
    /\ \E ok \in BOOLEAN :
          LET logged == log_action(result, output, ok)
          IN /\ action_log' = Append(action_log, logged.entry)
             /\ raised' = logged.raised

\* the handler sends the lines collected so far before the exception leaves it
RaiseAfterPartialOutput(exc) ==
    /\ pc' = "done"
    /\ raised' = exc
    /\ replies' = Append(replies, [kind |-> "text", seconds |-> 0,
                                   lines |-> loc.all_lines, rows |-> loc.rows])
    /\ UNCHANGED action_log

\* an exception leaves the handler
Raise(exc) ==
    /\ pc' = "done"
    /\ raised' = exc
    /\ UNCHANGED <<replies, action_log>>

(***************************************************************************)
(* Local time (bot.py:2038, 2411: datetime.fromtimestamp(t).strftime)      *)
(***************************************************************************)
\* the zones the process may run in: UTC, and a zone with summer time whose
\* clocks are set back by DstShift seconds at the instant FallBack
Zones == {"UTC", "DST"}
FallBack == 250
DstShift == 3600

\* the offset of local time from UTC at the instant t, less the zone's
\* standard offset
utcoffset(zone, t) == IF zone = "DST" /\ t < FallBack THEN DstShift ELSE 0

(***************************************************************************)
(* The provider's data                                                     *)
(***************************************************************************)
\* the three transactions of the end-to-end scenario, newest first
ScenarioHistory ==
    << Tx(3, 300, 700, IbanUpper2), Tx(2, 200, 0 - 300, NoIban),
       Tx(1, 100, 500, IbanUpper1) >>

\* the history of each provider account: account 2 has an outgoing
\* transaction and a zero amount, account 3 a zero amount and an incoming one
ProviderHistory(mono_account_id) ==
    IF mono_account_id = 1 THEN ScenarioHistory
    ELSE IF mono_account_id = 2
    THEN << Tx(4, 150, 0 - 50, NoIban), Tx(7, 140, 0, NoIban) >>
    ELSE << Tx(6, 250, 0, NoIban), Tx(5, 120, 900, IbanLower1) >>

(***************************************************************************)
(* The limiter alone: time passes, tokens are marked and queried           *)
(***************************************************************************)
Instants ==
    { t \in 0..(MaxClock * TicksPerSec) :
        \E k \in 0..(MaxClock \div CoarseSec), j \in (0 - MaxFine)..MaxFine :
            t = k * CoarseSec * TicksPerSec + j }

NoWait == [called |-> FALSE, token |-> "t1", now |-> 0, marked |-> FALSE,
           last_ts |-> 0, seconds |-> 0]

LimIdle ==
    /\ clock = 0
    /\ bot_data = << >>
    /\ wait_ret = NoWait

\* time passes
Tick ==
    /\ \E t \in Instants : t > clock /\ clock' = t
    /\ UNCHANGED <<bot_data, wait_ret, hostVars, dbVars, avail, fetchVars, filterVars,
                   aggVars, permVars>>

LimMark ==
    /\ \E token \in Tokens : bot_data' = mark_statement_call(bot_data, token, clock)
    /\ UNCHANGED <<clock, wait_ret, hostVars, dbVars, avail, fetchVars, filterVars,
                   aggVars, permVars>>

\* the record of one call of get_statement_wait_left
wait_call(data, token, now) ==
    [called |-> TRUE, token |-> token, now |-> now,
     marked |-> token \in DOMAIN data,
     last_ts |-> IF token \in DOMAIN data THEN data[token] ELSE 0,
     seconds |-> get_statement_wait_left(data, token, now)]

LimWait ==
    /\ \E token \in Tokens : wait_ret' = wait_call(bot_data, token, clock)
    /\ UNCHANGED <<clock, bot_data, hostVars, dbVars, avail, fetchVars, filterVars,
                   aggVars, permVars>>

InitLimiter ==
    /\ LimIdle
    /\ DbEmpty
    /\ avail = NoAvail
    /\ FetchIdle
    /\ FilterIdle
    /\ AggIdle
    /\ PermIdle

NextLimiter == Tick \/ LimMark \/ LimWait

SpecLimiter == InitLimiter /\ [][NextLimiter]_vars

(***************************************************************************)
(* Claims about the rate limiter                                           *)
(***************************************************************************)
\* C2: get_statement_wait_left returns 0 only if the token was never marked or
\* at least STATEMENT_MIN_INTERVAL seconds have passed since its last mark, and
\* otherwise the remaining time rounded up to whole seconds.
C2_WaitIsZeroOnlyWhenOpenElseCeil ==
    wait_ret.called =>
        LET open == \/ ~wait_ret.marked
                    \/ wait_ret.now - wait_ret.last_ts
                          >= STATEMENT_MIN_INTERVAL * TicksPerSec
        IN /\ wait_ret.seconds = 0 => open
           /\ ~open => wait_ret.seconds =
                  CeilDiv(STATEMENT_MIN_INTERVAL * TicksPerSec
                            - (wait_ret.now - wait_ret.last_ts), TicksPerSec)

(***************************************************************************)
(* The fetcher alone: fetch_statement applied to a provider history        *)
(***************************************************************************)
\* longest history, latest time of a transaction
MaxTx == 4
MaxTime == 3

\* the histories of an account: newest first, ids by position
Histories ==
    UNION { { [i \in 1..n |-> Tx(i, f[i], 100, NoIban)] :
                f \in { g \in [1..n -> 0..MaxTime] :
                          \A i \in 1..n : \A j \in 1..n : i < j => g[i] >= g[j] } } :
            n \in 0..MaxTx }

InitFetch ==
    /\ \E h \in Histories, from_ts \in 0..MaxTime, to_ts \in 0..MaxTime,
          fail_at \in 0..2, status \in ProviderStatuses :
          /\ from_ts <= to_ts
          /\ fail_at = 0 => status = HTTP_TOO_MANY
          /\ fetch_in = [provider |-> HistoryProvider(h), from_ts |-> from_ts,
                         to_ts |-> to_ts, fail_at |-> fail_at, status |-> status]
    /\ fetch_out = NoFetchOut
    /\ DbEmpty
    /\ avail = NoAvail
    /\ FilterIdle
    /\ LimIdle
    /\ AggIdle
    /\ PermIdle

DoFetch ==
    /\ ~fetch_out.done
    /\ LET r == fetch_statement(fetch_in.provider, fetch_in.from_ts, fetch_in.to_ts,
                                fetch_in.fail_at, fetch_in.status)
       IN fetch_out' = [done |-> TRUE, raised |-> r.raised, status |-> r.status,
                        items |-> r.items, calls |-> r.calls]
    /\ UNCHANGED <<fetch_in, hostVars, dbVars, avail, filterVars, limVars, aggVars, permVars>>

NextFetch == DoFetch

SpecFetch == InitFetch /\ [][NextFetch]_vars

\* C4: fetch_statement returns every transaction of the account whose time
\* lies in [from_ts, to_ts], whatever the number of transactions and their
\* timestamps (several in one second, a full page ending at from_ts).
C4_FetchReturnsWholeWindow ==
    (fetch_out.done /\ ~fetch_out.raised) =>
        \A i \in DOMAIN fetch_in.provider.history :
            (fetch_in.from_ts <= fetch_in.provider.history[i].time
                /\ fetch_in.provider.history[i].time <= fetch_in.to_ts)
            => \E j \in DOMAIN fetch_out.items :
                  fetch_out.items[j] = fetch_in.provider.history[i]

(***************************************************************************)
(* The filter alone: filter_income_and_ignore applied to a list            *)
(***************************************************************************)
\* longest list of transactions handed to the filter
MaxItems == 2

FilterAmounts == {0 - 300, 0, 700}
FilterIbans == {NoIban, IbanUpper1, IbanLower1, IbanUpper2}
\* iban_norm values: get_ignore_ibans_norm drops the empty ones
IgnorePool == {IbanLower1, IbanUpper1, Lower(IbanUpper2)}

FilterItems ==
    UNION { { [i \in 1..n |-> [id |-> i, time |-> i, amount |-> f[i][1],
                               amount_ok |-> f[i][2], counterIban |-> f[i][3],
                               comment |-> ""]] :
                f \in [1..n -> { x \in FilterAmounts \X BOOLEAN \X FilterIbans :
                                   ~x[2] => x[1] = 0 }] } :
            n \in 0..MaxItems }

InitFilter ==
    /\ \E items \in FilterItems, ign \in SUBSET IgnorePool,
          allow_in \in BOOLEAN, allow_out \in BOOLEAN :
          filter_in = [items |-> items, ignore_ibans_norm |-> ign,
                       allow_in |-> allow_in, allow_out |-> allow_out]
    /\ filter_out = NoFilterOut
    /\ DbEmpty
    /\ avail = NoAvail
    /\ FetchIdle
    /\ LimIdle
    /\ AggIdle
    /\ PermIdle

DoFilter ==
    /\ ~filter_out.done
    /\ LET r == filter_income_and_ignore(filter_in.items, filter_in.ignore_ibans_norm,
                                         filter_in.allow_in, filter_in.allow_out)
       IN filter_out' = [done |-> TRUE, result |-> r.result, flows |-> r.flows]
    /\ UNCHANGED <<filter_in, hostVars, dbVars, avail, fetchVars, limVars, aggVars, permVars>>

NextFilter == DoFilter

SpecFilter == InitFilter /\ [][NextFilter]_vars

\* what C6 says the filter keeps
C6_Keeps(it, ign, allow_in, allow_out) ==
    /\ it.amount_ok
    /\ it.amount # 0
    /\ Lower(it.counterIban) \notin ign
    /\ \/ it.amount > 0 /\ allow_in
       \/ it.amount < 0 /\ allow_out

\* C6: the filter keeps a transaction iff its amount is a non-zero integer,
\* its lower-cased counter IBAN is not in the ignore set and its flow is
\* allowed; the kept list is in input order.
C6_FilterKeepsExactly ==
    filter_out.done =>
        filter_out.result =
            SelectSeq(filter_in.items,
                      LAMBDA it : C6_Keeps(it, filter_in.ignore_ibans_norm,
                                           filter_in.allow_in, filter_in.allow_out))

\* a list of two: the first dropped for its upper-case IBAN, the second kept
C6_Witness ==
    /\ filter_out.done
    /\ Len(filter_in.items) = 2
    /\ filter_in.items[1].counterIban = IbanUpper1
    /\ filter_in.items[1].amount > 0
    /\ filter_in.allow_in
    /\ IbanLower1 \in filter_in.ignore_ibans_norm
    /\ filter_out.result = <<filter_in.items[2]>>

(***************************************************************************)
(* One aggregation request, from the handler's entry to its return         *)
(***************************************************************************)
\* users: an admin, a manager limited to 3 days, an accountant, and a manager
\* with max_days = 0
UsersTable ==
    [u \in UserIds |->
        [id |-> u,
         role |-> IF u = 1 THEN "admin" ELSE IF u = 3 THEN "accountant" ELSE "manager",
         max_days |-> IF u = 4 THEN 0 ELSE 3]]

\* accounts: all active, or account 1 inactive, or account 2 deleted
AccountTables ==
    { [a \in ids |-> AccountRow(a, a # 1 \/ active1)] :
        ids \in {{1, 2, 3}, {1, 3}}, active1 \in BOOLEAN }

OrgRow(o, state) ==
    [id |-> o, name |-> o, token |-> IF state = "notoken" THEN ""
                                     ELSE IF o = 1 THEN "t1" ELSE "t2",
     is_active |-> state # "inactive"]

\* organizations: each active with a token, inactive, without a token or absent
OrgTables ==
    { [o \in { x \in OrgIds : st[x] # "absent" } |-> OrgRow(o, st[o])] :
        st \in { <<"ok", "ok">>, <<"ok", "inactive">>, <<"notoken", "ok">>,
                 <<"inactive", "absent">> } }

\* the grants of one user: none or a stored value on accounts 1 and 3, a
\* grant on account 2 (also when the account was deleted)
GrantTables(u) ==
    { [k \in { <<u, a>> : a \in { x \in AccountIds : g[x] # <<"none">> } } |-> g[k[2]]] :
        g \in { f \in [AccountIds -> {<<"none">>, <<"in">>, <<"out">>, <<"in", "out">>}] :
                  /\ f[2] = <<"in", "out">>
                  /\ f[3] \in {<<"none">>, <<"in">>} } }

\* the request arrives one interval after the start of the clock
Arrival == STATEMENT_MIN_INTERVAL * TicksPerSec

\* what the limiter recorded before: nothing; t1 used 15 s ago and t2 45 s ago;
\* t2 used 15 s ago; t1 used one tick less than the interval ago
LimiterHistories ==
    { << >>,
      [t \in {"t1", "t2"} |-> IF t = "t1" THEN Arrival - 15 * TicksPerSec
                              ELSE Arrival - 45 * TicksPerSec],
      [t \in {"t2"} |-> Arrival - 15 * TicksPerSec],
      [t \in {"t1"} |-> 1] }

Requests ==
    { [mode |-> m, user_id |-> u, key_kind |-> k[1], key_id |-> k[2],
       from_ts |-> 0, to_ts |-> span] :
        m \in {"payments", "statement"}, u \in UserIds,
        k \in {<<"all", 0>>, <<"id", 1>>, <<"bad", 0>>},
        span \in {3 * SECONDS_PER_DAY, 3 * SECONDS_PER_DAY + 1, 4 * SECONDS_PER_DAY} }

\* the spans at and just over the limit are asked by the limited user only
RequestsChecked ==
    { r \in Requests : r.user_id # 2 => r.to_ts - r.from_ts = 4 * SECONDS_PER_DAY }

Init ==
    /\ users = UsersTable
    /\ accounts \in AccountTables
    /\ organizations \in OrgTables
    /\ req \in RequestsChecked
    /\ user_accounts \in GrantTables(req.user_id)
    /\ ignore_counter_iban \in {{IbanLower1}, {IbanUpper1}}
    /\ bot_data \in LimiterHistories
    \* show_payments_for_period sorts by int(time) and only prints the local
    \* time; the rows of the statement are sorted by it
    /\ tz \in IF req.mode = "statement" THEN Zones ELSE {"UTC"}
    /\ tasks = NoTasks
    /\ ChatIdle
    /\ clock = Arrival
    /\ wait_ret = NoWait
    /\ avail = NoAvail
    /\ pc = "start"
    /\ loc = NoLoc
    /\ replies = << >>
    /\ action_log = << >>
    /\ events = << >>
    /\ raised = ""
    /\ FetchIdle
    /\ FilterIdle
    /\ PermIdle

aggFrame == <<hostVars, dbVars, req, fetchVars, filterVars, permVars>>

\* from the handler's entry to the rate limiter's gate
Start ==
    /\ pc = "start"
    /\ LET user_row == users[req.user_id]
           available == get_available_accounts_for_user(accounts, user_accounts, user_row)
           selected == IF req.key_kind = "all" THEN available
                       ELSE SelectSeq(available, LAMBDA a : a.id = req.key_id)
           cache == org_cache_of(selected, organizations)
           tokens == collect_tokens(selected, cache)
           wait == max_wait_left(tokens, bot_data, clock)
           called == [called |-> TRUE, user_id |-> req.user_id, result |-> available]
           checked == wait_call(bot_data,
                          CHOOSE t \in tokens :
                              get_statement_wait_left(bot_data, t, clock) = wait,
                          clock)
       IN IF /\ ~user_has_unlimited_days(user_row)
             /\ period_exceeds_limit(req.from_ts, req.to_ts, user_row.max_days)
          THEN /\ IF translator_t("errors.period_limit", <<user_row.max_days>>).raised
                  THEN Raise("TypeError")
                  ELSE ReplyLogReturn(Msg("errors.period_limit"), 0, "period_limit")
               /\ UNCHANGED <<avail, loc, wait_ret>>
          ELSE IF req.key_kind = "bad"
          THEN /\ ReplyLogReturn(Msg("errors.invalid_card"), 0, "invalid_card")
               /\ avail' = called
               /\ UNCHANGED <<loc, wait_ret>>
          ELSE IF selected = << >>
          THEN /\ ReplyLogReturn(
                      Msg(IF req.mode = "payments" THEN "payments.no_available_cards"
                          ELSE "statement.no_accounts"), 0, "no_accounts")
               /\ avail' = called
               /\ UNCHANGED <<loc, wait_ret>>
          ELSE IF tokens = {}
          THEN /\ ReplyLogReturn(Msg("statement.no_active_tokens"), 0, "no_active_tokens")
               /\ avail' = called
               /\ loc' = [loc EXCEPT !.accounts = selected, !.org_cache = cache]
               /\ UNCHANGED wait_ret
          ELSE IF wait > 0
          THEN /\ IF translator_t("errors.monobank_retry_in", <<wait>>).raised
                  THEN Raise("TypeError")
                  ELSE ReplyLogReturn(
                          [Msg("errors.monobank_rate_limit") EXCEPT !.seconds = wait],
                          0, "rate_limit")
               /\ avail' = called
               /\ wait_ret' = checked
               /\ loc' = [loc EXCEPT !.accounts = selected, !.org_cache = cache,
                                     !.max_wait_left = wait]
          ELSE /\ pc' = "loop"
               /\ avail' = called
               /\ wait_ret' = checked
               /\ loc' = [loc EXCEPT !.accounts = selected, !.org_cache = cache,
                                     !.ignore_ibans =
                                         get_ignore_ibans_norm(ignore_counter_iban),
                                     !.idx = 1]
               /\ UNCHANGED <<replies, action_log, raised>>
    /\ UNCHANGED <<aggFrame, events, clock, bot_data>>

CurAcc == loc.accounts[loc.idx]
CurOrg == loc.org_cache[CurAcc.organization_id]

\* the main loop skips an account whose organization cannot be used
LoopSkip ==
    /\ pc = "loop"
    /\ loc.idx <= Len(loc.accounts)
    /\ ~org_usable(CurOrg)
    /\ loc' = [loc EXCEPT !.idx = loc.idx + 1]
    /\ UNCHANGED <<aggFrame, avail, pc, replies, action_log, events, raised, clock,
                   bot_data, wait_ret>>

\* mark_statement_call moved out of the try block, into a finally
AfterFetchAlwaysMark(fetch_raised, status) == "mark"

\* try: fetch_statement; mark_statement_call / except HTTPError: 429 or raise
after_fetch(fetch_raised, status) ==
    IF ~fetch_raised THEN "mark"
    ELSE IF status = HTTP_TOO_MANY THEN "except429" ELSE "except"

\* fetch_statement for the current account: it returns or raises
LoopFetch ==
    /\ pc = "loop"
    /\ loc.idx <= Len(loc.accounts)
    /\ org_usable(CurOrg)
    /\ \E fail_at \in 0..MaxFailAt, status \in ProviderStatuses,
          d \in 1..MaxFetchTicks :
          LET r == fetch_statement(
                      HistoryProvider(ProviderHistory(CurAcc.mono_account_id)),
                      req.from_ts, req.to_ts, fail_at, status)
          IN /\ fail_at = 0 => status = HTTP_TOO_MANY
             /\ clock' = clock + d
             /\ loc' = [loc EXCEPT !.token = CurOrg.token, !.fetched = r.items]
             /\ events' = events \o
                    << Event("fetch", CurAcc.id, CurOrg.token, clock, 0),
                       Event(IF r.raised THEN "raised" ELSE "returned", CurAcc.id,
                             CurOrg.token, clock + d,
                             IF r.raised THEN r.status ELSE Len(r.calls)) >>
             /\ pc' = after_fetch(r.raised, r.status)
             /\ fetch_in' = [provider |->
                                 HistoryProvider(ProviderHistory(CurAcc.mono_account_id)),
                             from_ts |-> req.from_ts, to_ts |-> req.to_ts,
                             fail_at |-> fail_at, status |-> status]
             /\ fetch_out' = [done |-> TRUE, raised |-> r.raised, status |-> r.status,
                              items |-> r.items, calls |-> r.calls]
    /\ UNCHANGED <<hostVars, dbVars, req, filterVars, permVars, avail, replies, action_log,
                   raised,
                   bot_data, wait_ret>>

\* mark_statement_call after the fetch returned
LoopMark ==
    /\ pc = "mark"
    /\ bot_data' = mark_statement_call(bot_data, loc.token, clock)
    /\ events' = Append(events, Event("mark", CurAcc.id, loc.token, clock, 0))
    /\ pc' = "shape"
    /\ UNCHANGED <<aggFrame, avail, loc, replies, action_log, raised, clock, wait_ret>>

\* except HTTPError with status 429
LoopRateLimited ==
    /\ pc = "except429"
    /\ LET wait_left == get_statement_wait_left(bot_data, loc.token, clock)
       IN IF wait_left > 0
          THEN IF translator_t("errors.monobank_retry_in", <<wait_left>>).raised
               THEN Raise("TypeError")
               ELSE ReplyLogReturn(
                       [Msg("errors.monobank_rate_limit") EXCEPT !.seconds = wait_left],
                       0, "rate_limit")
          ELSE ReplyLogReturn(Msg("errors.monobank_rate_limit"), 0, "rate_limit")
    /\ wait_ret' = wait_call(bot_data, loc.token, clock)
    /\ UNCHANGED <<aggFrame, avail, loc, events, clock, bot_data>>

\* except HTTPError with another status: raise
LoopReraise ==
    /\ pc = "except"
    /\ Raise("HTTPError")
    /\ UNCHANGED <<aggFrame, avail, loc, events, clock, bot_data, wait_ret>>

Line(kind, account, it, label) ==
    [kind |-> kind, account |-> account, time |-> it.time, amount |-> it.amount,
     label |-> label]

RECURSIVE TxLines(_, _)
TxLines(account, items) ==
    IF items = << >> THEN << >>
    ELSE <<Line("tx", account, Head(items), "")>>
         \o (IF Head(items).comment # ""
             THEN <<Line("comment", account, Head(items), Head(items).comment)>>
             ELSE << >>)
         \o TxLines(account, Tail(items))

\* datetime.fromtimestamp(t).strftime("%Y-%m-%d %H:%M:%S"): the wall clock of
\* the zone at t, as the number of seconds its digits stand for (the strings
\* are of one width, so they compare as these numbers do)
FormatTime(t) == t + utcoffset(tz, t)

Row(acc, org, it, label) ==
    [token_id |-> acc.organization_id, account_id |-> acc.id, token_name |-> org.name,
     account_name |-> acc.name, datetime |-> FormatTime(it.time), amount |-> it.amount,
     comment |-> it.comment, flow |-> IF it.amount < 0 THEN "out" ELSE "in",
     account_flow_label |-> label,
     \* not a key of the row: the transaction it was built from
     tx_id |-> it.id, tx_time |-> it.time]

BlankLine == [kind |-> "blank", account |-> 0, time |-> 0, amount |-> 0, label |-> ""]

\* the filter and the shaping of the current account's section
LoopShape ==
    /\ pc = "shape"
    /\ LET flows_allowed == IF CurAcc.access_permissions = {} THEN {"in"}
                            ELSE CurAcc.access_permissions
           f == filter_income_and_ignore(loc.fetched, loc.ignore_ibans,
                                         "in" \in flows_allowed, "out" \in flows_allowed)
           label == flows_to_payments_label(f.flows)
           kept == sorted_by_time(f.result)
           gap == IF loc.first_block THEN << >>
                  ELSE IF loc.prev_org_id # CurAcc.organization_id
                  THEN <<BlankLine, BlankLine>> ELSE <<BlankLine>>
           header == [kind |-> "header", account |-> CurAcc.id, time |-> 0,
                      amount |-> 0, label |-> label]
       IN IF f.result = << >>
          THEN loc' = [loc EXCEPT !.idx = loc.idx + 1, !.fetched = << >>,
                                  !.filtered_items = << >>,
                                  !.included_flows = f.flows]
          ELSE IF req.mode = "payments"
          THEN loc' = [loc EXCEPT !.idx = loc.idx + 1, !.fetched = << >>,
                           !.filtered_items = f.result,
                           !.included_flows = f.flows,
                           !.first_block = FALSE,
                           !.prev_org_id = CurAcc.organization_id,
                           !.all_lines = loc.all_lines \o gap \o <<header>>
                                            \o TxLines(CurAcc.id, kept),
                           !.total_ops = loc.total_ops + Len(kept)]
          ELSE loc' = [loc EXCEPT !.idx = loc.idx + 1, !.fetched = << >>,
                           !.filtered_items = f.result,
                           !.included_flows = f.flows,
                           !.rows = loc.rows \o
                               [i \in DOMAIN kept |-> Row(CurAcc, CurOrg, kept[i], label)]]
    /\ pc' = "loop"
    /\ UNCHANGED <<aggFrame, avail, replies, action_log, events, raised, clock, bot_data,
                   wait_ret>>

\* rows.sort(key=lambda r: (r["_token_id"], r["_account_id"], r["datetime"]))
RowLessEq(r, q) ==
    \/ r.token_id < q.token_id
    \/ r.token_id = q.token_id /\ r.account_id < q.account_id
    \/ r.token_id = q.token_id /\ r.account_id = q.account_id /\ r.datetime <= q.datetime

RECURSIVE SortRowsInto(_, _)
SortRowsInto(rows, sorted) ==
    IF rows = << >> THEN sorted
    ELSE LET x == Head(rows)
             k == Cardinality({ i \in DOMAIN sorted : RowLessEq(sorted[i], x) })
         IN SortRowsInto(Tail(rows),
                SubSeq(sorted, 1, k) \o <<x>> \o SubSeq(sorted, k + 1, Len(sorted)))

sort_rows(rows) == SortRowsInto(rows, << >>)

\* show_payments_for_period without "if total_ops == 0"
FinishPaymentsEmptySuccess ==
    /\ pc = "loop"
    /\ loc.idx > Len(loc.accounts)
    /\ req.mode = "payments"
    /\ ReplyLogReturn([Msg("text") EXCEPT !.lines = loc.all_lines], 1, "text")
    /\ UNCHANGED <<aggFrame, avail, loc, events, clock, bot_data, wait_ret>>

\* after the loop: the reply of show_payments_for_period
FinishPayments ==
    /\ pc = "loop"
    /\ loc.idx > Len(loc.accounts)
    /\ req.mode = "payments"
    /\ IF loc.total_ops = 0
       THEN ReplyLogReturn(Msg("payments.no_payments_period"), 0, "no_payments_period")
       ELSE ReplyLogReturn([Msg("text") EXCEPT !.lines = loc.all_lines], 1, "text")
    /\ UNCHANGED <<aggFrame, avail, loc, events, clock, bot_data, wait_ret>>

\* after the loop: the spreadsheet of generate_and_send_statement
FinishStatement ==
    /\ pc = "loop"
    /\ loc.idx > Len(loc.accounts)
    /\ req.mode = "statement"
    /\ IF loc.rows = << >>
       THEN /\ ReplyLogReturn(Msg("payments.no_payments_period"), 0, "no_payments_period")
            /\ UNCHANGED loc
       ELSE /\ loc' = [loc EXCEPT !.rows = sort_rows(loc.rows)]
            /\ IF translator_t("statement.file_caption", <<req.from_ts, req.to_ts>>).raised
               THEN Raise("TypeError")
               ELSE ReplyLogReturn([Msg("document") EXCEPT !.rows = sort_rows(loc.rows)],
                                   1, "filename")
    /\ UNCHANGED <<aggFrame, avail, events, clock, bot_data, wait_ret>>

Next ==
    \/ Start
    \/ LoopSkip
    \/ LoopFetch
    \/ LoopMark
    \/ LoopRateLimited
    \/ LoopReraise
    \/ LoopShape
    \/ FinishPayments
    \/ FinishStatement

Spec == Init /\ [][Next]_vars

(***************************************************************************)
(* Claims about the aggregation handlers                                   *)
(***************************************************************************)
SelectedTokens == collect_tokens(loc.accounts, loc.org_cache)

ProviderCalls == { i \in DOMAIN events : events[i].kind = "fetch" }
Marks == { i \in DOMAIN events : events[i].kind = "mark" }

\* C1: when a token of the selected accounts still has to wait, the call ends
\* with a single rate-limit reply that reports the largest wait of those
\* tokens, without a provider call and without a mark.
C1_GateRepliesLargestWait ==
    (pc = "done" /\ loc.max_wait_left > 0) =>
        /\ raised = ""
        /\ Len(replies) = 1
        /\ replies[1].kind = "errors.monobank_rate_limit"
        /\ replies[1].seconds = max_wait_left(SelectedTokens, bot_data, clock)
        /\ ProviderCalls = {}
        /\ Marks = {}

\* C3: a mark follows at once the successful return of a fetch with the same
\* token and precedes the next fetch, no mark follows a fetch that raised, and
\* the mark stores the current time for that token.
C3_MarkOnlyAfterReturnedFetch ==
    /\ \A i \in DOMAIN events :
          /\ events[i].kind = "mark" =>
                /\ i > 1
                /\ events[i - 1].kind = "returned"
                /\ events[i - 1].token = events[i].token
                /\ events[i - 1].at = events[i].at
          /\ (events[i].kind = "fetch" /\ i > 1) => events[i - 1].kind = "mark"
          /\ events[i].kind = "raised" => i = Len(events)
          /\ (events[i].kind = "returned" /\ i = Len(events)) => pc = "mark"
    /\ pc = "shape" =>
          /\ events[Len(events)].kind = "mark"
          /\ loc.token \in DOMAIN bot_data
          /\ bot_data[loc.token] = clock
          /\ events[Len(events)].at = clock

\* two accounts of one token: the first fetch returned and was marked, the
\* second raised and was not
C3_Witness ==
    /\ Len(events) = 5
    /\ events[3].kind = "mark"
    /\ events[5].kind = "raised"
    /\ events[5].token = events[3].token
    /\ bot_data[events[3].token] = events[3].at
    /\ events[5].at > events[3].at

GrantedActive(user_id) ==
    { a \in DOMAIN accounts :
        accounts[a].is_active /\ <<user_id, a>> \in DOMAIN user_accounts }

C7_Scenario ==
    /\ req.key_kind = "id"
    /\ req.key_id = 1
    /\ <<req.user_id, 1>> \in DOMAIN user_accounts
    /\ user_accounts[<<req.user_id, 1>>] = <<"in">>
    /\ pc = "loop"
    /\ loc.idx = 2

\* C7 as stated: in the scenario the kept output is exactly the transaction
\* of time 300 and amount 700, whatever the case of the ignore-list entry.
C7_KeptIsLastWhateverCase ==
    C7_Scenario => loc.filtered_items = << Tx(3, 300, 700, IbanUpper2) >>

\* C7 amended: with the ignore-list entry in lower case the kept output is
\* exactly the transaction of time 300; with the entry in upper case
\* the +500 transaction of time 100 is kept as well.
C7_KeptIsLastForLowerCaseEntry ==
    C7_Scenario =>
        /\ ignore_counter_iban = {IbanLower1}
              => loc.filtered_items = << Tx(3, 300, 700, IbanUpper2) >>
        /\ ignore_counter_iban = {IbanUpper1}
              => loc.filtered_items
                    = << Tx(3, 300, 700, IbanUpper2), Tx(1, 100, 500, IbanUpper1) >>

C7_Witness ==
    /\ C7_Scenario
    /\ users[req.user_id].role = "manager"
    /\ ignore_counter_iban = {IbanLower1}
    /\ Len(loc.fetched) = 0
    /\ loc.filtered_items = << Tx(3, 300, 700, IbanUpper2) >>

\* C8: whenever a grant exists the resolved permission set contains "in":
\* an empty stored value gives {in}, a stored "out" gives {in, out}.
C8_GrantAlwaysHasIncoming ==
    avail.called =>
        \A i \in DOMAIN avail.result :
            <<avail.user_id, avail.result[i].id>> \in DOMAIN user_accounts =>
                LET stored == user_accounts[<<avail.user_id, avail.result[i].id>>]
                    perms == avail.result[i].access_permissions
                IN /\ "in" \in perms
                   /\ stored = << >> => perms = {"in"}
                   /\ stored = <<"out">> => perms = {"in", "out"}

\* C9: every aggregation attempt has written an audit log entry when the
\* handler is left, whether it succeeded, failed or raised.
C9_EveryAttemptIsLogged ==
    pc = "done" =>
        /\ Len(action_log) = 1
        /\ action_log[1].user_id = req.user_id
        /\ action_log[1].action_name = req.mode
        /\ action_log[1].result = 1 <=>
              (raised = "" /\ replies[Len(replies)].kind \in {"text", "document"})

Limited == ~(users[req.user_id].role \in {"admin", "accountant"})
              /\ users[req.user_id].max_days > 0

\* C10: a limited user asking for more than max_days*86400 seconds gets the
\* limit-exceeded reply and no provider call; exactly max_days*86400 seconds
\* pass the check, and an unlimited user is never rejected by it.
C10_DayLimit ==
    pc = "done" =>
        LET over == req.to_ts - req.from_ts
                      > users[req.user_id].max_days * SECONDS_PER_DAY
        IN /\ (Limited /\ over) =>
                /\ raised = ""
                /\ Len(replies) = 1
                /\ replies[1].kind = "errors.period_limit"
                /\ ProviderCalls = {}
           /\ (~Limited \/ ~over) => avail.called

\* the run contains a fetch that the provider answered with status 429
Raised429 ==
    \E i \in DOMAIN events :
        events[i].kind = "raised" /\ events[i].calls = HTTP_TOO_MANY

\* C11: after a fetch that failed with status 429 no further account is
\* fetched and nothing is marked for it, and the call ends with the rate-limit
\* reply, which gives the wait computed for that token when it is positive.
C11_Provider429EndsWithWaitReply ==
    (pc = "done" /\ Raised429) =>
        /\ events[Len(events)].kind = "raised"
        /\ raised = ""
        /\ Len(replies) = 1
        /\ replies[1].kind = "errors.monobank_rate_limit"
        /\ wait_ret.called
        /\ wait_ret.token = events[Len(events)].token
        /\ wait_ret.seconds > 0 => replies[1].seconds = wait_ret.seconds

\* the call ended in a failure: an exception, or a log entry with result 0
Failed ==
    /\ pc = "done"
    /\ \/ raised # ""
       \/ action_log # << >> /\ action_log[Len(action_log)].result = 0

\* C12: nothing is sent before the handler ends, and a call that ends in a
\* failure has sent no text of transaction lines and no spreadsheet: at most
\* one message, the failure message.
C12_NoPartialOutputOnFailure ==
    /\ pc # "done" => replies = << >>
    /\ Failed =>
          /\ Len(replies) <= 1
          /\ \A i \in DOMAIN replies :
                /\ replies[i].kind \notin {"text", "document"}
                /\ replies[i].lines = << >>
                /\ replies[i].rows = << >>

\* the section of the first account was built, then the fetch of a later
\* account failed
C12_Witness ==
    /\ Failed
    /\ raised = "HTTPError"
    /\ loc.all_lines # << >>
    /\ loc.idx > 1
    /\ replies = << >>

\* the accounts the user may see: the active ones for admin, the active ones
\* with a grant for the others
Visible(user_id) ==
    IF users[user_id].role = "admin"
    THEN { a \in DOMAIN accounts : accounts[a].is_active }
    ELSE GrantedActive(user_id)

\* C13: a request for one account id that is not visible to the user, once
\* past the day-limit check, ends with the no-account reply, without a
\* provider call, a check of the limiter or a mark.
C13_InvisibleIdIsNotFound ==
    (pc = "done" /\ avail.called /\ req.key_kind = "id"
        /\ req.key_id \notin Visible(req.user_id)) =>
        /\ raised = ""
        /\ Len(replies) = 1
        /\ replies[1].kind \in {"payments.no_available_cards", "statement.no_accounts"}
        /\ Len(action_log) = 1
        /\ action_log[1].result = 0
        /\ ProviderCalls = {}
        /\ Marks = {}
        /\ ~wait_ret.called
        /\ bot_data \in LimiterHistories

\* a manager without a grant on the active account 1, with a grant on
\* account 3, asks for account 1
C13_Witness ==
    /\ pc = "done"
    /\ avail.called
    /\ req.key_kind = "id"
    /\ users[req.user_id].role = "manager"
    /\ accounts[req.key_id].is_active
    /\ <<req.user_id, req.key_id>> \notin DOMAIN user_accounts
    /\ <<req.user_id, 3>> \in DOMAIN user_accounts
    /\ replies # << >>
    /\ events = << >>

\* the organization of an account is active and has a token
OrgServes(a) ==
    /\ OrgOf(a) \in DOMAIN organizations
    /\ organizations[OrgOf(a)].is_active
    /\ organizations[OrgOf(a)].token # ""

\* C14: when no selected account belongs to an active organization with a
\* token the call replies "no active tokens" without a provider call, and no
\* run ever fetches an account whose organization is inactive, missing or
\* without a token.
C14_NoFetchWithoutActiveSource ==
    /\ (pc = "done" /\ loc.accounts # << >>
          /\ \A i \in DOMAIN loc.accounts : ~OrgServes(loc.accounts[i].id)) =>
          /\ raised = ""
          /\ Len(replies) = 1
          /\ replies[1].kind = "statement.no_active_tokens"
          /\ ProviderCalls = {}
    /\ \A i \in ProviderCalls :
          /\ OrgServes(events[i].account)
          /\ events[i].token = organizations[OrgOf(events[i].account)].token

\* accounts of an active and of an inactive organization are selected: the
\* first are fetched, account 3 is not
C14_Witness ==
    /\ pc = "done"
    /\ \E i \in DOMAIN loc.accounts : loc.accounts[i].id = 3
    /\ 2 \in DOMAIN organizations
    /\ ~organizations[2].is_active
    /\ organizations[2].token # ""
    /\ ProviderCalls # {}
    /\ \A i \in ProviderCalls : events[i].account # 3

(***************************************************************************)
(* The normalizers alone: a stored permission value is normalized by both  *)
(* functions and resolved for the admin and for a manager                  *)
(***************************************************************************)
\* the values of the permissions column: NULL or up to two chunks
PermValues ==
    {<< >>} \cup { <<c>> : c \in Chunks } \cup { <<c, d>> : c \in Chunks, d \in Chunks }

AllActive == [a \in AccountIds |-> AccountRow(a, TRUE)]

\* the chunks of a value, as a set
SetOf(value) == { value[i] : i \in DOMAIN value }

InitNorm ==
    /\ \E value \in PermValues, ensure_income \in BOOLEAN :
          /\ perm_call = [NoPermCall EXCEPT !.value = value,
                                            !.ensure_income = ensure_income]
          /\ user_accounts = [k \in {<<1, 1>>, <<2, 1>>} |-> value]
    /\ perm_granted = << >>
    /\ users = UsersTable
    /\ accounts = AllActive
    /\ organizations = << >>
    /\ ignore_counter_iban = {}
    /\ avail = NoAvail
    /\ FetchIdle
    /\ FilterIdle
    /\ LimIdle
    /\ AggIdle

\* both normalizers applied to the value
DoNormalize ==
    /\ ~perm_call.done
    /\ LET perms == permissions_from_value(perm_call.value, perm_call.ensure_income)
       IN perm_call' = [perm_call EXCEPT
                           !.done = TRUE,
                           !.perms = perms,
                           !.text = permissions_string_from_set(perms),
                           !.normalized = normalize_permissions_value(perm_call.value)]
    /\ UNCHANGED <<perm_granted, hostVars, dbVars, avail, fetchVars, filterVars, limVars,
                   aggVars>>

\* get_available_accounts_for_user for the admin or the manager
NormRead ==
    /\ \E u \in {1, 2} :
          avail' = [called |-> TRUE, user_id |-> u,
                    result |-> get_available_accounts_for_user(accounts, user_accounts,
                                                               users[u])]
    /\ UNCHANGED <<permVars, hostVars, dbVars, fetchVars, filterVars, limVars, aggVars>>

NextNorm == DoNormalize \/ NormRead

SpecNorm == InitNorm /\ [][NextNorm]_vars

(***************************************************************************)
(* The grants: granted, updated, revoked and read back                     *)
(***************************************************************************)
PermUsers == {1, 2}
PermAccounts == {1, 2}
PermTokens == {"in", "out", "balance"}

\* the strings written for the sets of tokens, and "full"
WrittenValues ==
    { permissions_string_from_set(P) : P \in SUBSET PermTokens } \cup {<<"full">>}

InitPerm ==
    /\ users = UsersTable
    /\ accounts = AllActive
    /\ organizations = << >>
    /\ user_accounts = [k \in {} |-> <<"in">>]
    /\ ignore_counter_iban = {}
    /\ perm_granted = [k \in {} |-> <<"in">>]
    /\ perm_call = NoPermCall
    /\ avail = NoAvail
    /\ FetchIdle
    /\ FilterIdle
    /\ LimIdle
    /\ AggIdle

permFrame == <<users, accounts, organizations, ignore_counter_iban, perm_call,
               fetchVars, filterVars, limVars, aggVars, hostVars>>

\* grant_account_to_user(user_id, account_id)
PermGrant ==
    /\ \E u \in PermUsers, a \in PermAccounts :
          /\ user_accounts' = grant_account_to_user(user_accounts, u, a)
          /\ perm_granted' = [k \in DOMAIN perm_granted \cup {<<u, a>>} |->
                                 IF k \in DOMAIN perm_granted THEN perm_granted[k]
                                 ELSE <<"in">>]
    /\ avail' = NoAvail
    /\ UNCHANGED permFrame

\* revoke_account_from_user(user_id, account_id)
PermRevoke ==
    /\ \E u \in PermUsers, a \in PermAccounts :
          /\ <<u, a>> \in DOMAIN user_accounts
          /\ user_accounts' = revoke_account_from_user(user_accounts, u, a)
          /\ perm_granted' = [k \in DOMAIN perm_granted \ {<<u, a>>} |-> perm_granted[k]]
    /\ avail' = NoAvail
    /\ UNCHANGED permFrame

\* the write of one value for the grant of (u, a)
WriteGrant(u, a, value) ==
    /\ user_accounts' = update_user_account_permissions(user_accounts, u, a, value).table
    /\ perm_granted' = [k \in DOMAIN perm_granted |->
                           IF k = <<u, a>> THEN value ELSE perm_granted[k]]
    /\ avail' = NoAvail

\* update_user_account_permissions(user_id, account_id, permissions)
PermUpdate ==
    /\ \E u \in PermUsers, a \in PermAccounts, value \in WrittenValues :
          WriteGrant(u, a, value)
    /\ UNCHANGED permFrame

\* the permission dialog, add or del of one token: acc is a row of accounts,
\* which has no permissions column, so acc.get("permissions") is None
PermDialog ==
    /\ \E u \in PermUsers, a \in PermAccounts, action \in {"add", "del"},
          token \in PermTokens :
          LET current_perms == permissions_from_value(<< >>, FALSE)
              new_perms == IF action = "add" THEN current_perms \cup {token}
                           ELSE current_perms \ {token}
              updated == permissions_string_from_set(new_perms)
          IN /\ a \in DOMAIN accounts
             /\ WriteGrant(u, a, updated)
    /\ UNCHANGED permFrame

\* get_available_accounts_for_user(user_row)
PermRead ==
    /\ \E u \in PermUsers :
          avail' = [called |-> TRUE, user_id |-> u,
                    result |-> get_available_accounts_for_user(accounts, user_accounts,
                                                               users[u])]
    /\ UNCHANGED <<permFrame, user_accounts, perm_granted>>

NextPerm == PermGrant \/ PermRevoke \/ PermUpdate \/ PermDialog \/ PermRead

SpecPerm == InitPerm /\ [][NextPerm]_vars

(***************************************************************************)
(* Claims about the permissions                                            *)
(***************************************************************************)
\* the set of tokens a written value stands for
GrantedSet(value) ==
    IF "full" \in SetOf(value) THEN PermTokens ELSE SetOf(value) \cap PermTokens

\* C15: for the admin an active account without a grant resolves to {in},
\* and an account with a grant of the admin resolves to the set that was
\* granted, outgoing and balance included (compared apart from "in", which
\* a grant always implies).
C15_AdminDefaultAndExplicitGrant ==
    (avail.called /\ users[avail.user_id].role = "admin") =>
        \A i \in DOMAIN avail.result :
            LET k == <<avail.user_id, avail.result[i].id>>
                perms == avail.result[i].access_permissions
            IN /\ k \notin DOMAIN user_accounts => perms = {"in"}
               /\ k \in DOMAIN user_accounts =>
                     perms \cup {"in"} = GrantedSet(perm_granted[k]) \cup {"in"}

\* C16: after update_user_account_permissions(u, a, P) the set resolved for
\* account a of user u is P with "in" added, for every set P of tokens.
C16_WrittenPermissionsReadBack ==
    avail.called =>
        \A i \in DOMAIN avail.result :
            LET k == <<avail.user_id, avail.result[i].id>>
            IN (k \in DOMAIN perm_granted /\ "full" \notin SetOf(perm_granted[k])) =>
                  avail.result[i].access_permissions
                      = GrantedSet(perm_granted[k]) \cup {"in"}

KnownTokens == {"in", "out", "balance"}

\* C17: normalization keeps no token outside {in, out, balance}, an empty,
\* missing or all-unknown value gives {in}, and every account returned by
\* get_available_accounts_for_user carries a non-empty permission set.
C17_NormalizedNeverEmptyNorUnknown ==
    /\ perm_call.done =>
          LET tokens == TokensOf(perm_call.value)
          IN /\ perm_call.perms \subseteq KnownTokens
             /\ perm_call.perms # {}
             /\ "full" \notin tokens =>
                   perm_call.perms \ {"in"} = (tokens \cap KnownTokens) \ {"in"}
             /\ tokens \cap (KnownTokens \cup {"full"}) = {} => perm_call.perms = {"in"}
             /\ SetOf(perm_call.text) = perm_call.perms
             /\ perm_call.normalized # << >>
             /\ SetOf(perm_call.normalized) \subseteq KnownTokens
             /\ tokens \cap KnownTokens = {} => perm_call.normalized = <<"in">>
    /\ avail.called =>
          \A i \in DOMAIN avail.result :
              /\ avail.result[i].access_permissions # {}
              /\ avail.result[i].access_permissions \subseteq KnownTokens
              /\ avail.result[i].permissions # << >>

\* the stored value "x, OUT " was normalized and read back for the manager:
\* the unknown token is gone, the set is {out}
C17_Witness ==
    /\ perm_call.done
    /\ perm_call.value = <<"x", " OUT ">>
    /\ perm_call.perms = {"out"}
    /\ perm_call.normalized = <<"out">>
    /\ avail.called
    /\ avail.user_id = 2
    /\ Len(avail.result) = 1
    /\ avail.result[1].access_permissions = {"out"}

\* C18: the normalization applied before persistence expands a value that
\* contains "full" to in, out, balance, and both normalizers are idempotent.
C18_FullExpandedAndIdempotent ==
    perm_call.done =>
        /\ "full" \in TokensOf(perm_call.value) =>
              perm_call.normalized = <<"in", "out", "balance">>
        /\ normalize_permissions_value(perm_call.normalized) = perm_call.normalized
        /\ permissions_string_from_set(
              permissions_from_value(perm_call.text, perm_call.ensure_income))
              = perm_call.text

\* the flows the handlers allow for a grant written as value and read back
FlowsOfGrant(role, value) ==
    LET stored == normalize_permissions_value(value)
        perms == IF role = "admin"
                 THEN permissions_from_value(normalize_permissions_value(stored), FALSE)
                 ELSE permissions_from_value(stored, FALSE)
        flows_allowed == IF perms = {} THEN {"in"} ELSE perms
    IN flows_allowed \cap {"in", "out"}

\* C19: a grant with and without "balance" allows the same flows, so the
\* same fetches and kept transactions, and "balance" in the grant decides
\* whether the account is among those of the balance query.
C19_BalanceOnlyDecidesBalanceQuery ==
    avail.called =>
        \A i \in DOMAIN avail.result :
            LET k == <<avail.user_id, avail.result[i].id>>
                role == users[avail.user_id].role
                perms == avail.result[i].access_permissions
            IN (k \in DOMAIN perm_granted /\ "full" \notin SetOf(perm_granted[k])) =>
                  LET P == GrantedSet(perm_granted[k])
                  IN /\ perms \cap {"in", "out"} = FlowsOfGrant(role, perm_granted[k])
                     /\ FlowsOfGrant(role, permissions_string_from_set(P \ {"balance"}))
                          = FlowsOfGrant(role,
                                permissions_string_from_set(P \cup {"balance"}))
                     /\ "balance" \in perms <=> "balance" \in P

\* C20: a transaction whose amount is zero is in no filter output, in no
\* text line and in no row of the spreadsheet.
C20_ZeroAmountNeverSurfaces ==
    /\ \A i \in DOMAIN loc.filtered_items : loc.filtered_items[i].amount # 0
    /\ \A i \in DOMAIN loc.all_lines :
          loc.all_lines[i].kind \in {"tx", "comment"} => loc.all_lines[i].amount # 0
    /\ \A i \in DOMAIN loc.rows : loc.rows[i].amount # 0
    /\ \A i \in DOMAIN replies :
          /\ \A j \in DOMAIN replies[i].lines :
                replies[i].lines[j].kind \in {"tx", "comment"}
                    => replies[i].lines[j].amount # 0
          /\ \A j \in DOMAIN replies[i].rows : replies[i].rows[j].amount # 0

\* account 2, whose history holds a zero amount and an outgoing transaction,
\* was fetched with both flows allowed: only the outgoing one is in the text
C20_Witness ==
    /\ pc = "done"
    /\ req.mode = "payments"
    /\ \E i \in DOMAIN loc.accounts :
          /\ loc.accounts[i].id = 2
          /\ loc.accounts[i].access_permissions = {"in", "out"}
    /\ \E i \in DOMAIN ProviderHistory(2) : ProviderHistory(2)[i].amount = 0
    /\ replies # << >>
    /\ replies[1].kind = "text"
    /\ \E j \in DOMAIN replies[1].lines :
          replies[1].lines[j].kind = "tx" /\ replies[1].lines[j].account = 2

\* C21: filtering is idempotent: the filter applied to its own kept list,
\* with the same ignore set and the same flags, returns that list and the
\* same flow set.
C21_FilterIdempotent ==
    filter_out.done =>
        LET again == filter_income_and_ignore(filter_out.result,
                                              filter_in.ignore_ibans_norm,
                                              filter_in.allow_in, filter_in.allow_out)
        IN /\ again.result = filter_out.result
           /\ again.flows = filter_out.flows

\* a list of two of which the first pass dropped one and kept one, with a
\* non-empty ignore set
C21_Witness ==
    /\ filter_out.done
    /\ Len(filter_in.items) = 2
    /\ Len(filter_out.result) = 1
    /\ filter_out.flows # {}
    /\ filter_in.ignore_ibans_norm # {}

\* the flow kinds of a list of amounts
FlowKinds(amounts) ==
    (IF \E x \in amounts : x > 0 THEN {"in"} ELSE {})
        \cup (IF \E x \in amounts : x < 0 THEN {"out"} ELSE {})

\* the label that names exactly the given flow kinds
LabelOfKinds(kinds) ==
    IF kinds = {"in", "out"} THEN "flows.in_out"
    ELSE IF kinds = {"out"} THEN "flows.out"
    ELSE "flows.in"

\* C22: the flow set returned by the filter is the set of flow kinds of the
\* kept transactions, and the label of an account's section, in the text and
\* in the rows of the spreadsheet, names exactly the kinds of the transactions
\* shown for that account, whatever flows the account's grant allows.
C22_LabelNamesKeptFlows ==
    /\ loc.included_flows =
          FlowKinds({ loc.filtered_items[i].amount : i \in DOMAIN loc.filtered_items })
    /\ \A i \in DOMAIN loc.all_lines :
          loc.all_lines[i].kind = "header" =>
              loc.all_lines[i].label =
                  LabelOfKinds(FlowKinds(
                      { loc.all_lines[j].amount :
                          j \in { k \in DOMAIN loc.all_lines :
                                    /\ loc.all_lines[k].kind = "tx"
                                    /\ loc.all_lines[k].account
                                           = loc.all_lines[i].account } }))
    /\ \A i \in DOMAIN loc.rows :
          loc.rows[i].account_flow_label =
              LabelOfKinds(FlowKinds(
                  { loc.rows[j].amount :
                      j \in { k \in DOMAIN loc.rows :
                                loc.rows[k].account_id = loc.rows[i].account_id } }))

\* account 2 is granted both flows and only its outgoing transaction is kept:
\* its section of the text is labelled as outgoing
C22_Witness ==
    /\ req.mode = "payments"
    /\ \E i \in DOMAIN loc.accounts :
          /\ loc.accounts[i].id = 2
          /\ loc.accounts[i].access_permissions = {"in", "out"}
    /\ \E i \in DOMAIN loc.all_lines :
          /\ loc.all_lines[i].kind = "header"
          /\ loc.all_lines[i].account = 2
          /\ loc.all_lines[i].label = "flows.out"

(***************************************************************************)
(* The fetcher against a scripted provider                                 *)
(***************************************************************************)
\* the most full batches a script holds before its short one
MaxFull == 2

\* the scripts: k full batches, then one batch shorter than the page cap; the
\* items of one batch carry one time (the loop reads the smallest time of a
\* batch only), and an item without a "time" key reads as from_ts
StubScripts ==
    UNION { { [b \in 1..(k + 1) |->
                 [i \in 1..(IF b <= k THEN PageCap ELSE s) |->
                     Tx((b - 1) * PageCap + i, t[b], 100, NoIban)]] :
                t \in [1..(k + 1) -> 0..MaxTime], s \in 0..(PageCap - 1) } :
            k \in 0..MaxFull }

InitStub ==
    /\ \E script \in StubScripts, from_ts \in 0..MaxTime :
          fetch_in = [provider |-> StubProvider(script), from_ts |-> from_ts,
                      to_ts |-> MaxTime, fail_at |-> 0, status |-> HTTP_TOO_MANY]
    /\ fetch_out = NoFetchOut
    /\ DbEmpty
    /\ avail = NoAvail
    /\ FilterIdle
    /\ LimIdle
    /\ AggIdle
    /\ PermIdle

SpecStub == InitStub /\ [][NextFetch]_vars

RECURSIVE ConcatBatches(_)
ConcatBatches(batches) ==
    IF batches = << >> THEN << >>
    ELSE Head(batches) \o ConcatBatches(Tail(batches))

\* every full batch of the script leaves a part of the window to ask for
FullBatchesAboveFrom ==
    \A b \in DOMAIN fetch_in.provider.batches :
        Len(fetch_in.provider.batches[b]) = PageCap
            => \A i \in DOMAIN fetch_in.provider.batches[b] :
                  fetch_in.provider.batches[b][i].time > fetch_in.from_ts

PageOfCall(n) ==
    ProviderPage(fetch_in.provider.history, fetch_out.calls[n][1], fetch_out.calls[n][2])

\* C24: with a provider that answers a call with transactions of the asked
\* window only, the returned list holds no transaction twice, and every
\* page holds only times strictly smaller than every time of the pages
\* before it.
C24_NoDuplicateAcrossPages ==
    (fetch_out.done /\ ~fetch_out.raised) =>
        /\ \A i \in DOMAIN fetch_out.items : \A j \in DOMAIN fetch_out.items :
              fetch_out.items[i] = fetch_out.items[j] => i = j
        /\ \A n \in DOMAIN fetch_out.calls : \A m \in DOMAIN fetch_out.calls :
              n < m =>
                  \A i \in DOMAIN PageOfCall(n) : \A j \in DOMAIN PageOfCall(m) :
                      PageOfCall(m)[j].time < PageOfCall(n)[i].time

\* a second page was asked for and held a transaction, after a first page
\* that ended in a second it shares with a transaction left out of it
C24_Witness ==
    /\ fetch_out.done
    /\ ~fetch_out.raised
    /\ Len(fetch_out.calls) = 2
    /\ PageOfCall(2) # << >>
    /\ Len(fetch_out.items) = PageCap + Len(PageOfCall(2))
    /\ \E i \in DOMAIN fetch_in.provider.history :
          /\ fetch_in.provider.history[i].time = MinTime(PageOfCall(1))
          /\ \A j \in DOMAIN PageOfCall(1) :
                PageOfCall(1)[j] # fetch_in.provider.history[i]

\* the provider rejected a call of the latest fetch
Rejected == fetch_out.done /\ fetch_in.fail_at \in 1..Len(fetch_out.calls)

\* C25: when the provider rejects a call of a fetch, the fetch raises with
\* the provider's status, the rejected call is its last call, no page
\* received before is handed to the handler, the handler does not mark the
\* token for that fetch, and a status other than 429 leaves the handler as
\* the HTTPError.
C25_RejectionRaisesAtOnce ==
    Rejected =>
        /\ fetch_out.raised
        /\ fetch_out.status = fetch_in.status
        /\ Len(fetch_out.calls) = fetch_in.fail_at
        /\ fetch_out.items = << >>
        /\ loc.fetched = << >>
        /\ \E k \in DOMAIN events :
              /\ events[k].kind = "fetch"
              /\ \A j \in DOMAIN events :
                    j > k => events[j].kind \notin {"fetch", "mark", "returned"}
        /\ (pc = "done" /\ fetch_out.status # HTTP_TOO_MANY) => raised = "HTTPError"

\* the second call of a fetch was rejected with status 500 after a full page
\* had been received, and the handler has ended
C25_Witness ==
    /\ Rejected
    /\ fetch_in.fail_at = 2
    /\ fetch_in.status = 500
    /\ ProviderPage(fetch_in.provider.history, fetch_out.calls[1][1],
                    fetch_out.calls[1][2]) # << >>
    /\ pc = "done"
    /\ raised = "HTTPError"

\* C26: asked at the instant of the token's latest mark, get_statement_wait_left
\* returns a value v with 0 < v <= STATEMENT_MIN_INTERVAL; asked
\* STATEMENT_MIN_INTERVAL seconds or more after it, it returns 0.
C26_FullWaitAfterMarkZeroAfterInterval ==
    (wait_ret.called /\ wait_ret.marked) =>
        /\ wait_ret.now = wait_ret.last_ts
              => (0 < wait_ret.seconds /\ wait_ret.seconds <= STATEMENT_MIN_INTERVAL)
        /\ wait_ret.now - wait_ret.last_ts >= STATEMENT_MIN_INTERVAL * TicksPerSec
              => wait_ret.seconds = 0

\* a token marked after time has passed and asked about at that same instant
C26_Witness ==
    /\ wait_ret.called
    /\ wait_ret.marked
    /\ wait_ret.last_ts > 0
    /\ wait_ret.now = wait_ret.last_ts
    /\ wait_ret.token \in DOMAIN bot_data
    /\ bot_data[wait_ret.token] = wait_ret.last_ts
    /\ wait_ret.seconds = STATEMENT_MIN_INTERVAL

\* C27: a call of log_user_action that raises changes nothing of the
\* response: the step of the handler that logs ends the handler without an
\* exception, with its reply sent, and leaves the provider calls and the
\* limiter as they were, whether the row was written or not.
C27_LogFailureIsSwallowed ==
    [][action_log' # action_log =>
          /\ pc' = "done"
          /\ raised' = ""
          /\ replies' # << >>
          /\ Len(replies') = Len(replies) + 1
          /\ events' = events
          /\ bot_data' = bot_data
          /\ Len(action_log') = Len(action_log) + 1]_vars

\* the text of the payments was sent and the write of its log row failed
C27_Witness ==
    /\ pc = "done"
    /\ raised = ""
    /\ action_log # << >>
    /\ ~action_log[Len(action_log)].written
    /\ action_log[Len(action_log)].result = 1
    /\ replies # << >>
    /\ replies[Len(replies)].kind = "text"
    /\ \E i \in DOMAIN events : events[i].kind = "mark"

\* the loop over the accounts has ended and nothing was kept for any of them
C28_NothingKept ==
    /\ pc = "done"
    /\ raised = ""
    /\ loc.accounts # << >>
    /\ loc.idx > Len(loc.accounts)
    /\ loc.all_lines = << >>
    /\ loc.rows = << >>

\* C28: an account for which the filter keeps nothing adds no header, no
\* line and no row (every header is followed by a transaction of its
\* account), and a call whose accounts all keep nothing replies "no
\* transactions in period" and is logged with result 0.
C28_EmptyAccountAddsNothing ==
    /\ [][(pc = "shape" /\ loc'.filtered_items = << >>) =>
              /\ loc'.all_lines = loc.all_lines
              /\ loc'.rows = loc.rows
              /\ loc'.total_ops = loc.total_ops
              /\ loc'.first_block = loc.first_block
              /\ loc'.prev_org_id = loc.prev_org_id]_vars
    /\ [](\A i \in DOMAIN loc.all_lines :
              loc.all_lines[i].kind = "header" =>
                  /\ i < Len(loc.all_lines)
                  /\ loc.all_lines[i + 1].kind = "tx"
                  /\ loc.all_lines[i + 1].account = loc.all_lines[i].account)
    /\ [](C28_NothingKept =>
              /\ Len(replies) = 1
              /\ replies[1].kind = "payments.no_payments_period"
              /\ replies[1].lines = << >>
              /\ replies[1].rows = << >>
              /\ Len(action_log) = 1
              /\ action_log[1].result = 0)

\* account 3 was fetched, its incoming transaction was dropped for its
\* ignored counter IBAN, and the payments call answered that the period has
\* no transactions
C28_Witness ==
    /\ C28_NothingKept
    /\ req.mode = "payments"
    /\ \E i \in DOMAIN events : events[i].kind = "returned" /\ events[i].account = 3
    /\ \E i \in DOMAIN ProviderHistory(3) : ProviderHistory(3)[i].amount > 0
    /\ IbanLower1 \in loc.ignore_ibans
    /\ replies[1].kind = "payments.no_payments_period"

\* the rows were sorted and handed to write_xlsx
C29_RowsHandedOver ==
    /\ pc = "done"
    /\ req.mode = "statement"
    /\ loc.accounts # << >>
    /\ loc.idx > Len(loc.accounts)
    /\ loc.rows # << >>

\* the order by (organization id, account id, transaction time)
C29_Before(r, q) ==
    \/ r.token_id < q.token_id
    \/ r.token_id = q.token_id /\ r.account_id < q.account_id
    \/ r.token_id = q.token_id /\ r.account_id = q.account_id /\ r.tx_time <= q.tx_time

\* C29: the list handed to the report renderer holds exactly one row per
\* kept transaction and is sorted by organization id, then account id, then
\* transaction time ascending.
C29_RowsSortedByOrgAccountTime ==
    /\ [][(pc = "shape" /\ req.mode = "statement") =>
              /\ Len(loc'.rows) = Len(loc.rows) + Len(loc'.filtered_items)
              /\ \A i \in DOMAIN loc'.filtered_items :
                    \E j \in DOMAIN loc'.rows :
                        /\ j > Len(loc.rows)
                        /\ loc'.rows[j].tx_id = loc'.filtered_items[i].id
                        /\ loc'.rows[j].amount = loc'.filtered_items[i].amount]_vars
    /\ [][(pc = "loop" /\ pc' = "done" /\ req.mode = "statement") =>
              /\ Len(loc'.rows) = Len(loc.rows)
              /\ { loc'.rows[i] : i \in DOMAIN loc'.rows }
                    = { loc.rows[i] : i \in DOMAIN loc.rows }]_vars
    /\ [](C29_RowsHandedOver =>
              \A i \in DOMAIN loc.rows : \A j \in DOMAIN loc.rows :
                  i < j => C29_Before(loc.rows[i], loc.rows[j]))

\* the same in a process whose zone has no summer time
C29_SortedInUtc ==
    (C29_RowsHandedOver /\ tz = "UTC") =>
        \A i \in DOMAIN loc.rows : \A j \in DOMAIN loc.rows :
            i < j => C29_Before(loc.rows[i], loc.rows[j])

(***************************************************************************)
(* Two aggregation requests on one token in one process                    *)
(*                                                                         *)
(* The Application is built with its defaults (bot.py:2855), so it awaits  *)
(* the handler of one update before it takes the next one from the queue;  *)
(* a handler is a coroutine, and between its limiter check and its marks   *)
(* it has no await (bot.py:1969-1999).                                     *)
(***************************************************************************)
ConcToken == "t1"

\* handlers run as threads: any of them may take its next step
LoopFreeAlways(t, h) == h \in Handlers

\* may the event loop run the next step of handler h: no other handler has
\* started and not yet returned
loop_free_for(t, h) == t.running \in {0, h}

TaskEvent(h, kind, w) ==
    [h |-> h, kind |-> kind, at |-> clock, seconds |-> w.seconds,
     marked |-> w.marked, last_ts |-> w.last_ts]

concFrame == <<dbVars, avail, fetchVars, filterVars, aggVars, permVars, tz, chatVars,
              xlsx, wait_ret>>

\* process_update: the Application starts the handler of the next update
ConcDispatch(h) ==
    /\ tasks.pc[h] = "queued"
    /\ loop_free_for(tasks, h)
    /\ tasks' = [tasks EXCEPT !.running = h, !.pc[h] = "gate"]
    /\ UNCHANGED <<concFrame, clock, bot_data>>

\* max_wait_left = max(get_statement_wait_left(context, token) ...); a
\* positive wait ends the handler
ConcGate(h) ==
    /\ tasks.pc[h] = "gate"
    /\ loop_free_for(tasks, h)
    /\ LET w == wait_call(bot_data, ConcToken, clock)
       IN tasks' = [tasks EXCEPT
                       !.pc[h] = IF w.seconds > 0 THEN "end" ELSE "fetch",
                       !.log = Append(tasks.log, TaskEvent(h, "check", w))]
    /\ UNCHANGED <<concFrame, clock, bot_data>>

\* items = fetch_statement(...): it returns or raises
ConcFetch(h) ==
    /\ tasks.pc[h] = "fetch"
    /\ loop_free_for(tasks, h)
    /\ \E ok \in BOOLEAN :
          tasks' = [tasks EXCEPT
                       !.pc[h] = IF ok THEN "mark" ELSE "end",
                       !.log = Append(tasks.log,
                                      TaskEvent(h, IF ok THEN "fetched" ELSE "failed",
                                                wait_call(bot_data, ConcToken, clock)))]
    /\ UNCHANGED <<concFrame, clock, bot_data>>

\* mark_statement_call(context, token)
ConcMark(h) ==
    /\ tasks.pc[h] = "mark"
    /\ loop_free_for(tasks, h)
    /\ bot_data' = mark_statement_call(bot_data, ConcToken, clock)
    /\ tasks' = [tasks EXCEPT
                    !.pc[h] = "end",
                    !.log = Append(tasks.log,
                                   TaskEvent(h, "mark",
                                             wait_call(bot_data, ConcToken, clock)))]
    /\ UNCHANGED <<concFrame, clock>>

\* the reply is sent and the handler returns, or its exception leaves it
ConcReturn(h) ==
    /\ tasks.pc[h] = "end"
    /\ loop_free_for(tasks, h)
    /\ tasks' = [tasks EXCEPT !.running = 0, !.pc[h] = "done"]
    /\ UNCHANGED <<concFrame, clock, bot_data>>

\* time passes, by multiples of CoarseSec seconds
ConcTick ==
    /\ \E t \in Instants :
          /\ t > clock
          /\ t % (CoarseSec * TicksPerSec) = 0
          /\ clock' = t
    /\ UNCHANGED <<concFrame, bot_data, tasks>>

InitConc ==
    /\ LimIdle
    /\ DbEmpty
    /\ avail = NoAvail
    /\ FetchIdle
    /\ FilterIdle
    /\ AggIdle
    /\ PermIdle

NextConc ==
    \/ ConcTick
    \/ \E h \in Handlers : ConcDispatch(h)
    \/ \E h \in Handlers : ConcGate(h)
    \/ \E h \in Handlers : ConcFetch(h)
    \/ \E h \in Handlers : ConcMark(h)
    \/ \E h \in Handlers : ConcReturn(h)

SpecConc == InitConc /\ [][NextConc]_vars

C33_Stops(n) ==
    \/ PageOfCall(n) = << >>
    \/ Len(PageOfCall(n)) < PageCap
    \/ MinTime(PageOfCall(n)) <= fetch_in.from_ts

\* C33: against a provider that answers with transactions of the asked
\* window only, fetch ends after at most to_ts - from_ts + 1 calls: the first
\* call asks for [from_ts, to_ts], every later call for the same from_ts and
\* an end one below the smallest time of the batch before it, which is
\* strictly below the end asked before, and the loop stops at the first
\* batch that is empty, short, or reaches down to from_ts.
C33_FetchTerminates ==
    fetch_out.done =>
        /\ Len(fetch_out.calls) >= 1
        /\ Len(fetch_out.calls) <= fetch_in.to_ts - fetch_in.from_ts + 1
        /\ fetch_out.calls[1] = <<fetch_in.from_ts, fetch_in.to_ts>>
        /\ \A n \in DOMAIN fetch_out.calls :
              n > 1 =>
                  /\ fetch_out.calls[n][1] = fetch_in.from_ts
                  /\ fetch_out.calls[n][2] = MinTime(PageOfCall(n - 1)) - 1
                  /\ fetch_out.calls[n][2] < fetch_out.calls[n - 1][2]
                  /\ ~C33_Stops(n - 1)
        /\ ~fetch_out.raised => C33_Stops(Len(fetch_out.calls))

\* a fetch of three calls: two full pages, then a window with nothing in it
C33_Witness ==
    /\ fetch_out.done
    /\ ~fetch_out.raised
    /\ Len(fetch_out.calls) = 3
    /\ Len(PageOfCall(1)) = PageCap
    /\ Len(PageOfCall(2)) = PageCap
    /\ fetch_out.calls[3][2] < fetch_out.calls[2][2]

\* C34: a statement fetch with a token starts no sooner than
\* STATEMENT_MIN_INTERVAL seconds after the previous successful fetch with
\* that token, also between the accounts of one request that share a token.
C34_FetchesOfOneTokenAreSpaced ==
    \A i \in DOMAIN events : \A j \in DOMAIN events :
        (/\ i < j
         /\ events[i].kind = "returned"
         /\ events[j].kind = "fetch"
         /\ events[j].token = events[i].token)
        => events[j].at - events[i].at >= STATEMENT_MIN_INTERVAL * TicksPerSec

\* C35: the recorded time of a token changes only when that token is marked:
\* a step that changes bot_data sets exactly one token to the current time
\* and leaves every other entry as it was, a call of get_statement_wait_left
\* changes nothing of it, and no entry is ever removed.
C35_OnlyMarkChangesItsToken ==
    [][/\ DOMAIN bot_data \subseteq DOMAIN bot_data'
       /\ wait_ret' # wait_ret => bot_data' = bot_data
       /\ clock' # clock => bot_data' = bot_data
       /\ bot_data' # bot_data =>
             \E c \in DOMAIN bot_data' :
                 /\ bot_data'[c] = clock
                 /\ \A t \in DOMAIN bot_data' \ {c} :
                       t \in DOMAIN bot_data /\ bot_data'[t] = bot_data[t]]_vars

\* both tokens are recorded at different times, and a later call of
\* get_statement_wait_left found the older record of its token in place
C35_Witness ==
    /\ DOMAIN bot_data = Tokens
    /\ bot_data["t1"] < bot_data["t2"]
    /\ wait_ret.called
    /\ wait_ret.token = "t1"
    /\ wait_ret.now > bot_data["t2"]
    /\ wait_ret.last_ts = bot_data["t1"]

(***************************************************************************)
(* The admin's callbacks on the grants (bot.py:521-953), sent by any chat  *)
(***************************************************************************)
\* the chats: the admin, a manager, a pending and a blocked user, and a chat
\* whose user has no row
ChatIds == {1, 2, 5, 6, 7}
ChatUsers ==
    [u \in {1, 2, 5, 6} |->
        [id |-> u,
         role |-> IF u = 1 THEN "admin" ELSE IF u = 2 THEN "manager"
                  ELSE IF u = 5 THEN "pending" ELSE "blocked",
         max_days |-> 3,
         friendly_name |-> << >>]]

\* db.get_user(user_id): the row, or a row without a role for None
get_user(us, user_id) ==
    IF user_id \in DOMAIN us THEN us[user_id]
    ELSE [id |-> 0, role |-> "", max_days |-> 0, friendly_name |-> << >>]

\* the value stored for a grant, << >> when there is no row
GrantValue(ua, user_id, account_id) ==
    IF <<user_id, account_id>> \in DOMAIN ua THEN ua[<<user_id, account_id>>] ELSE << >>

\* what a callback handler leaves behind
Handled(handler, sender, data, executed, before, reply, exc) ==
    upd' = [handler |-> handler, sender |-> sender, role |-> get_user(users, sender).role,
            data |-> data, executed |-> executed, before |-> before, reply |-> reply,
            raised |-> exc]

InitAdmin ==
    /\ users = ChatUsers
    /\ accounts = AllActive
    /\ organizations = << >>
    /\ user_accounts = [k \in {} |-> <<"in">>]
    /\ ignore_counter_iban = {}
    /\ avail = NoAvail
    /\ PermIdle
    /\ FetchIdle
    /\ FilterIdle
    /\ LimIdle
    /\ AggIdle

adminFrame == <<users, accounts, organizations, ignore_counter_iban, avail, permVars,
                fetchVars, filterVars, limVars, aggVars, tz, tasks, user_data, xlsx>>

\* admin_user_accounts_add: "prefix:<user_id>" lists the accounts to add,
\* "prefix:<user_id>:<account_id>" grants the account
admin_user_accounts_add ==
    /\ \E sender \in ChatIds, user_id \in PermUsers, account_id \in PermAccounts \cup {0} :
          IF account_id = 0
          THEN /\ Handled("admin_user_accounts_add", sender, <<user_id>>, {}, << >>,
                          "list", "")
               /\ UNCHANGED user_accounts
          ELSE /\ user_accounts' = grant_account_to_user(user_accounts, user_id, account_id)
               /\ Handled("admin_user_accounts_add", sender, <<user_id, account_id>>,
                          {"grant_account_to_user"},
                          GrantValue(user_accounts, user_id, account_id), "added", "")
    /\ UNCHANGED adminFrame

\* admin_user_accounts_del: "prefix:<user_id>" lists the accounts to remove,
\* "prefix:<user_id>:<account_id>" revokes the account
admin_user_accounts_del ==
    /\ \E sender \in ChatIds, user_id \in PermUsers, account_id \in PermAccounts \cup {0} :
          IF account_id = 0
          THEN /\ Handled("admin_user_accounts_del", sender, <<user_id>>, {}, << >>,
                          "list", "")
               /\ UNCHANGED user_accounts
          ELSE /\ user_accounts' = revoke_account_from_user(user_accounts, user_id,
                                                             account_id)
               /\ Handled("admin_user_accounts_del", sender, <<user_id, account_id>>,
                          {"revoke_account_from_user"},
                          GrantValue(user_accounts, user_id, account_id), "removed", "")
    /\ UNCHANGED adminFrame

\* the parts of the callback data of the permission dialog after the prefix
PermDialogData ==
    { <<u>> : u \in PermUsers }
    \cup { <<u, a>> : u \in PermUsers, a \in PermAccounts }
    \cup { <<u, a, action>> : u \in PermUsers, a \in PermAccounts, action \in {"add", "del"} }
    \cup { <<u, a, action, token>> : u \in PermUsers, a \in PermAccounts,
                                     action \in {"add", "del"}, token \in PermTokens }

\* the account's permissions as the dialog reads them: acc is the row of
\* get_account_by_id, a row of accounts, which has no permissions column
CurrentPermsOfDialog(ua, user_id, account_id) == permissions_from_value(<< >>, FALSE)

\* admin_user_accounts_perm: the menus, and with action and token the write
admin_user_accounts_perm ==
    /\ \E sender \in ChatIds, data \in PermDialogData :
          LET user_id == data[1]
              account_id == data[2]
              current_perms == CurrentPermsOfDialog(user_accounts, user_id, account_id)
              new_perms == IF data[3] = "add" THEN current_perms \cup {data[4]}
                           ELSE current_perms \ {data[4]}
              updated == permissions_string_from_set(new_perms)
              written == update_user_account_permissions(user_accounts, user_id,
                                                         account_id, updated)
          IN IF Len(data) < 4
             THEN /\ Handled("admin_user_accounts_perm", sender, data, {}, << >>, "menu",
                             "")
                  /\ UNCHANGED user_accounts
             ELSE /\ user_accounts' = written.table
                  /\ Handled("admin_user_accounts_perm", sender, data,
                             {"update_user_account_permissions"},
                             GrantValue(user_accounts, user_id, account_id),
                             IF written.success THEN "permissions.updated"
                             ELSE "permissions.update_failed", "")
    /\ UNCHANGED adminFrame

NextAdmin == admin_user_accounts_add \/ admin_user_accounts_del \/ admin_user_accounts_perm

SpecAdmin == InitAdmin /\ [][NextAdmin]_vars

\* C31: the grants are created, removed and changed only by the admin:
\* whenever a callback executes grant_account_to_user, revoke_account_from_user
\* or update_user_account_permissions, or the table of grants changes, the
\* chat user who sent the callback has role admin.
C31_GrantsChangedOnlyByAdmin ==
    [][(upd'.executed # {} \/ user_accounts' # user_accounts) => upd'.role = "admin"]_vars

\* C37: in the permission dialog, after "add t" on an existing grant the
\* stored set is the grant's previous set plus t, and after "del t" it is the
\* previous set minus t, {in} when that is empty.
C37_DialogKeepsPreviousTokens ==
    (/\ upd.handler = "admin_user_accounts_perm"
     /\ Len(upd.data) = 4
     /\ upd.before # << >>) =>
        LET previous == SetOf(upd.before)
            token == upd.data[4]
            expected == IF upd.data[3] = "add" THEN previous \cup {token}
                        ELSE previous \ {token}
            stored == SetOf(GrantValue(user_accounts, upd.data[1], upd.data[2]))
        IN stored = IF expected = {} THEN {"in"} ELSE expected

(***************************************************************************)
(* The dialogs of a chat: the text handler, the period callbacks and the   *)
(* approval of a user (bot.py:957-1030, 1604-1622, 1814-1860, 2170-2258,   *)
(* 2499-2846), followed by the aggregation they call                       *)
(***************************************************************************)
\* the words of a text: a word without digits, a number of one or two
\* digits, "-1", an ISO date (as its day, today being day 0) and a label of
\* the main menu
Word == [kind |-> "word", n |-> 0, key |-> ""]
Day(n) == [kind |-> "day", n |-> n, key |-> ""]
Neg == [kind |-> "neg", n |-> 0 - 1, key |-> ""]
Iso(d) == [kind |-> "iso", n |-> d, key |-> ""]
Label(key) == [kind |-> "label", n |-> 0, key |-> key]

\* any(ch.isdigit() for ch in text)
HasDigit(text) == \E i \in DOMAIN text : text[i].kind \in {"day", "neg", "iso"}

\* datetime.now().date(): the day of the month of today, the days of this
\* month and of the previous one
TodayOfMonth == 2
DaysInMonth == 30
DaysInPrevMonth == 31

\* date(year, month, day) as a day, today being day 0
DateOf(prev_month, day) ==
    day - TodayOfMonth - (IF prev_month THEN DaysInPrevMonth ELSE 0)

NoDay == 0 - 1
\* parse_day_token(token): None unless one or two digits
parse_day_token(token) == IF token.kind = "day" THEN token.n ELSE NoDay

ValueError == [ok |-> FALSE, from_raw |-> 0, to_raw |-> 0]
Period(from_raw, to_raw) == [ok |-> TRUE, from_raw |-> from_raw, to_raw |-> to_raw]

\* parse_custom_period_input(raw_text): the two dates, or ValueError
parse_custom_period_input(text) ==
    IF text = << >> THEN ValueError
    ELSE IF Len(text) = 1
    THEN IF text[1].kind = "iso" THEN Period(text[1].n, text[1].n)
         ELSE LET day == parse_day_token(text[1])
              IN IF day = NoDay \/ ~(1 <= day /\ day <= DaysInMonth) THEN ValueError
                 ELSE Period(DateOf(FALSE, day), DateOf(FALSE, day))
    ELSE IF Len(text) = 2
    THEN IF text[1].kind = "iso" /\ text[2].kind = "iso"
         THEN IF text[1].n > text[2].n THEN Period(text[2].n, text[1].n)
              ELSE Period(text[1].n, text[2].n)
         ELSE LET day1 == parse_day_token(text[1])
                  day2 == parse_day_token(text[2])
                  prev_month == day1 > day2
              IN IF day1 = NoDay \/ day2 = NoDay THEN ValueError
                 ELSE IF day1 > (IF prev_month THEN DaysInPrevMonth ELSE DaysInMonth)
                 THEN ValueError
                 ELSE IF day2 > DaysInMonth THEN ValueError
                 \* date(year, month, 0) raises ValueError
                 ELSE IF day1 < 1 \/ day2 < 1 THEN ValueError
                 ELSE Period(DateOf(prev_month, day1), DateOf(FALSE, day2))
    ELSE ValueError

\* monobank_api.unix_from_str(value, is_to) of an ISO date
unix_from_str(day, is_to) ==
    day * SECONDS_PER_DAY + (IF is_to THEN SECONDS_PER_DAY - 1 ELSE 0)

\* int(text.strip()) without the check max_days < 0
ParseMaxDaysAllowsNegative(text) ==
    IF Len(text) = 1 /\ text[1].kind \in {"day", "neg"} THEN [ok |-> TRUE, n |-> text[1].n]
    ELSE [ok |-> FALSE, n |-> 0]

\* int(text.strip()) with max_days >= 0, or ValueError
ParseMaxDays(text) ==
    IF Len(text) = 1 /\ text[1].kind = "day" THEN [ok |-> TRUE, n |-> text[1].n]
    ELSE [ok |-> FALSE, n |-> 0]

\* ensure_active_user without the check of the role blocked
EnsureActiveLetsBlocked(us, sender) ==
    LET user_row == get_user(us, sender)
    IN IF user_row.id = 0 THEN [ok |-> FALSE, reply |-> "errors.use_start"]
       ELSE IF user_row.role = "pending" THEN [ok |-> FALSE, reply |-> "errors.pending"]
       ELSE [ok |-> TRUE, reply |-> ""]

\* ensure_active_user(update, context): the row, or a refusal and None
ensure_active_user(us, sender) ==
    LET user_row == get_user(us, sender)
    IN IF user_row.id = 0 THEN [ok |-> FALSE, reply |-> "errors.use_start"]
       ELSE IF user_row.role = "pending" THEN [ok |-> FALSE, reply |-> "errors.pending"]
       ELSE IF user_row.role = "blocked" THEN [ok |-> FALSE, reply |-> "errors.blocked"]
       ELSE [ok |-> TRUE, reply |-> ""]

\* user_row is not None and user_allowed_for_menu(user_row)
user_allowed_for_menu(user_row) == user_row.role \in {"manager", "accountant", "admin"}

\* db.update_user_role(user_id, role, max_days=max_days)
update_user_role(us, user_id, role, max_days) ==
    [u \in DOMAIN us |-> IF u = user_id
                         THEN [us[u] EXCEPT !.role = role, !.max_days = max_days]
                         ELSE us[u]]

\* db.update_user_friendly_name(user_id, friendly_name)
update_user_friendly_name(us, user_id, friendly_name) ==
    [u \in DOMAIN us |-> IF u = user_id THEN [us[u] EXCEPT !.friendly_name = friendly_name]
                         ELSE us[u]]

\* an account key of the callback data: none, "all" or "<id>"
NoKey == <<"none", 0>>
\* context.user_data.get("pending_user_setup"): nothing
NoSetup == [target_id |-> 0, role |-> "", suggested_max_days |-> 0,
            friendly_name |-> << >>, named |-> FALSE]
\* context.user_data of a chat that has nothing pending
NoData == [admin_mode |-> "", pending_user_setup |-> NoSetup,
           pay_period_pending |-> NoKey, stmt_period_pending |-> NoKey,
           pay_custom_acc_id |-> NoKey, stmt_account_key |-> NoKey,
           stmt_waiting_dates |-> FALSE]

\* no call of an aggregation function
NoCall == [mode |-> "", key |-> NoKey, from_ts |-> 0, to_ts |-> 0]
\* show_payments_for_period / generate_and_send_statement(..., key, from_ts, to_ts)
Call(mode, key, from_ts, to_ts) ==
    [mode |-> mode, key |-> key, from_ts |-> from_ts, to_ts |-> to_ts]
CallForPeriod(mode, key, period) ==
    Call(mode, key, unix_from_str(period.from_raw, FALSE),
         unix_from_str(period.to_raw, TRUE))

\* what a handler did: the tables and the chat's user_data it leaves, its
\* reply, the functions it executed, the exception that left it and the
\* aggregation it called
Outcome(us, data, reply, executed, exc, call) ==
    [users |-> us, data |-> data, reply |-> reply, executed |-> executed,
     raised |-> exc, call |-> call]

\* text_handler, admin_mode approve_set_friendly_name and approve_set_max_days
\* (bot.py:2513-2595)
ApprovalStep(us, data, text) ==
    LET pending == data.pending_user_setup
        lost == Outcome(us, [data EXCEPT !.admin_mode = ""], "setup_lost", {}, "", NoCall)
        max_days == ParseMaxDays(text)
    IN IF data.admin_mode = "approve_set_friendly_name"
       THEN IF pending = NoSetup THEN lost
            ELSE IF text = << >>
            THEN Outcome(us, data, "friendly_name_empty", {}, "", NoCall)
            ELSE Outcome(us,
                         [data EXCEPT !.pending_user_setup.friendly_name = text,
                                      !.pending_user_setup.named = TRUE,
                                      !.admin_mode = "approve_set_max_days"],
                         "enter_max_days", {}, "", NoCall)
       ELSE IF pending = NoSetup \/ ~pending.named THEN lost
            ELSE IF ~max_days.ok
            THEN Outcome(us, data, "max_days_invalid", {}, "", NoCall)
            ELSE Outcome(update_user_friendly_name(
                             update_user_role(us, pending.target_id, pending.role,
                                              max_days.n),
                             pending.target_id, pending.friendly_name),
                         [data EXCEPT !.admin_mode = "", !.pending_user_setup = NoSetup],
                         "role_granted", {"update_user_role", "update_user_friendly_name"},
                         "", NoCall)

\* CUSTOM_PERIOD_HELP is not defined in bot.py: the reply of the except
\* branches (bot.py:2739, 2758, 2784, 2808) raises NameError
ReplyCustomPeriodHelp(us, data) == Outcome(us, data, "", {}, "NameError", NoCall)

\* text_handler, the period typed for a pending selection (bot.py:2733-2826);
\* taken is FALSE when no branch applies
PeriodStep(us, data, text) ==
    LET period == parse_custom_period_input(text)
        none == Outcome(us, data, "", {}, "", NoCall)
    IN IF data.pay_period_pending # NoKey /\ HasDigit(text)
       THEN [taken |-> TRUE,
             out |-> IF ~period.ok THEN ReplyCustomPeriodHelp(us, data)
                     ELSE Outcome(us, [data EXCEPT !.pay_period_pending = NoKey], "",
                                  {"show_payments_for_period"}, "",
                                  CallForPeriod("payments", data.pay_period_pending,
                                                period))]
       ELSE IF data.stmt_period_pending # NoKey /\ HasDigit(text)
       THEN [taken |-> TRUE,
             out |-> IF ~period.ok THEN ReplyCustomPeriodHelp(us, data)
                     ELSE Outcome(us,
                                  [data EXCEPT !.stmt_period_pending = NoKey,
                                               !.stmt_account_key =
                                                   data.stmt_period_pending], "",
                                  {"generate_and_send_statement"}, "",
                                  CallForPeriod("statement", data.stmt_period_pending,
                                                period))]
       ELSE IF data.pay_custom_acc_id # NoKey
       THEN [taken |-> TRUE,
             out |-> IF ~period.ok THEN ReplyCustomPeriodHelp(us, data)
                     ELSE Outcome(us, [data EXCEPT !.pay_custom_acc_id = NoKey], "",
                                  {"show_payments_for_period"}, "",
                                  CallForPeriod("payments", data.pay_custom_acc_id,
                                                period))]
       ELSE IF data.stmt_waiting_dates
       THEN [taken |-> TRUE,
             out |-> IF data.stmt_account_key = NoKey
                     THEN Outcome(us, [data EXCEPT !.stmt_waiting_dates = FALSE],
                                  "select_card_first", {}, "", NoCall)
                     ELSE IF ~period.ok THEN ReplyCustomPeriodHelp(us, data)
                     ELSE Outcome(us, [data EXCEPT !.stmt_waiting_dates = FALSE], "",
                                  {"generate_and_send_statement"}, "",
                                  CallForPeriod("statement", data.stmt_account_key,
                                                period))]
       ELSE [taken |-> FALSE, out |-> none]

\* text_handler, the main menu (bot.py:2828-2846): handle_payments_entry,
\* handle_statement_entry, handle_balance_entry, handle_admin_menu
MenuStep(us, data, user_row, text) ==
    LET available == get_available_accounts_for_user(accounts, user_accounts, user_row)
        allowed == SelectSeq(available, LAMBDA acc : "balance" \in acc.access_permissions)
        title == translator_t("payments.period.title", <<"card">>)
        label == IF Len(text) = 1 /\ text[1].kind = "label" THEN text[1].key ELSE ""
    IN IF label = "main.payments"
       THEN IF available = << >>
            THEN Outcome(us, data, "payments.no_accounts", {"handle_payments_entry"}, "",
                         NoCall)
            ELSE IF Len(available) = 1
            THEN Outcome(us, data, "", {"handle_payments_entry", "ask_period_for_payments"},
                         IF title.raised THEN "TypeError" ELSE "", NoCall)
            ELSE Outcome(us, data, "payments.choose_card", {"handle_payments_entry"}, "",
                         NoCall)
       ELSE IF label = "main.statement"
       THEN IF available = << >>
            THEN Outcome(us, data, "statement.no_accounts", {"handle_statement_entry"}, "",
                         NoCall)
            ELSE IF Len(available) = 1
            THEN Outcome(us, [data EXCEPT !.stmt_account_key = <<"id", available[1].id>>],
                         "", {"handle_statement_entry", "ask_statement_period"},
                         IF title.raised THEN "TypeError" ELSE "", NoCall)
            ELSE Outcome(us, data, "statement.choose_card", {"handle_statement_entry"},
                         "", NoCall)
       ELSE IF label = "main.balance"
       THEN IF allowed = << >>
            THEN Outcome(us, data, "no_balance_access", {"handle_balance_entry"}, "",
                         NoCall)
            ELSE Outcome(us, data, "balance", {"handle_balance_entry", "fetch_client_info"},
                         "", NoCall)
       ELSE IF label = "main.admin" /\ user_row.role = "admin"
       THEN Outcome(us, data, "admin_menu", {"handle_admin_menu"}, "", NoCall)
       ELSE Outcome(us, data, "errors.unknown_command", {}, "", NoCall)

\* text_handler(update, context) for the text of one chat
TextOutcome(us, data, sender, text) ==
    LET guard == ensure_active_user(us, sender)
        user_row == get_user(us, sender)
        period == PeriodStep(us, data, text)
    IN IF ~guard.ok THEN Outcome(us, data, guard.reply, {}, "", NoCall)
       ELSE IF data.admin_mode # "" /\ user_row.role = "admin"
       THEN ApprovalStep(us, data, text)
       ELSE IF period.taken THEN period.out
       ELSE MenuStep(us, data, user_row, text)

\* the texts typed, the account keys, the modes and the approvals sent
Texts ==
    { << >>, <<Word>>, <<Day(2)>>, <<Day(99)>>, <<Neg>>, <<Day(1), Day(2)>>,
      <<Label("main.statement")>>, <<Label("main.balance")>> }
ChatKeys == {<<"all", 0>>}
PayModes == {"last_hour", "last_3_hours", "today", "yesterday", "custom", "other"}
StmtModes == {"today", "yesterday", "last3", "custom", "other"}

InitChat ==
    /\ users = ChatUsers
    /\ accounts = AllActive
    /\ organizations = [o \in OrgIds |-> OrgRow(o, IF o = 2 THEN "inactive" ELSE "ok")]
    /\ user_accounts = [k \in {<<2, 1>>, <<2, 3>>, <<6, 1>>} |-> <<"in">>]
    /\ ignore_counter_iban = {IbanLower1}
    /\ user_data = [c \in ChatIds |-> NoData]
    /\ upd = NoUpdate
    /\ xlsx = NoSheet
    /\ tz = "UTC"
    /\ tasks = NoTasks
    /\ clock = Arrival
    /\ bot_data = << >>
    /\ wait_ret = NoWait
    /\ avail = NoAvail
    /\ req = [mode |-> "payments", user_id |-> 0, key_kind |-> "all", key_id |-> 0,
              from_ts |-> 0, to_ts |-> 0]
    /\ pc = "idle"
    /\ loc = NoLoc
    /\ replies = << >>
    /\ action_log = << >>
    /\ events = << >>
    /\ raised = ""
    /\ FetchIdle
    /\ FilterIdle
    /\ PermIdle

\* the handler of one update ran: what it wrote, and the aggregation it called
\* starts with the sender's row
Apply(handler, sender, data, out) ==
    /\ pc = "idle"
    /\ users' = out.users
    /\ user_data' = [user_data EXCEPT ![sender] = out.data]
    /\ Handled(handler, sender, data, out.executed, user_data[sender], out.reply,
               out.raised)
    /\ IF out.call.mode = "" THEN UNCHANGED <<req, pc>>
       ELSE /\ req' = [mode |-> out.call.mode, user_id |-> sender,
                       key_kind |-> out.call.key[1], key_id |-> out.call.key[2],
                       from_ts |-> out.call.from_ts, to_ts |-> out.call.to_ts]
            /\ pc' = "start"
    /\ UNCHANGED <<accounts, organizations, user_accounts, ignore_counter_iban, avail,
                   fetchVars, filterVars, permVars, limVars, loc, replies, action_log,
                   events, raised, tz, tasks, xlsx>>

\* text_handler(update, context)
text_handler ==
    \E sender \in ChatIds, text \in Texts :
        Apply("text_handler", sender, text,
              TextOutcome(users, user_data[sender], sender, text))

\* int(datetime.now().timestamp())
NowSeconds == clock \div TicksPerSec

\* pay_period_callback: "pay_per:<account_key>:<mode>"
pay_period_callback ==
    \E sender \in ChatIds, acc_key \in ChatKeys, mode \in PayModes :
        LET user_row == get_user(users, sender)
            data == [user_data[sender] EXCEPT !.pay_period_pending = NoKey]
            show(from_ts, to_ts) ==
                Outcome(users, data, "", {"show_payments_for_period"}, "",
                        Call("payments", acc_key, from_ts, to_ts))
            out == IF user_row.id = 0 \/ ~user_allowed_for_menu(user_row)
                   THEN Outcome(users, user_data[sender], "errors.no_access", {}, "",
                                NoCall)
                   ELSE IF mode = "last_hour" THEN show(NowSeconds - 3600, NowSeconds)
                   ELSE IF mode = "last_3_hours"
                   THEN show(NowSeconds - 3 * 3600, NowSeconds)
                   ELSE IF mode = "today"
                   THEN show(unix_from_str(0, FALSE), unix_from_str(0, TRUE))
                   ELSE IF mode = "yesterday"
                   THEN show(unix_from_str(0 - 1, FALSE), unix_from_str(0 - 1, TRUE))
                   ELSE IF mode = "custom"
                   THEN Outcome(users, [data EXCEPT !.pay_custom_acc_id = acc_key],
                                "period.custom_help", {}, "", NoCall)
                   ELSE Outcome(users, data, "", {}, "", NoCall)
        IN Apply("pay_period_callback", sender, <<acc_key, mode>>, out)

\* stmt_acc_callback: "stmt_acc:<account_key>"; ask_statement_period raises
\* at the title (bot.py:2111) before stmt_period_pending is set
stmt_acc_callback ==
    \E sender \in ChatIds, acc_key \in ChatKeys :
        LET user_row == get_user(users, sender)
            data == [user_data[sender] EXCEPT !.stmt_account_key = acc_key]
            available == get_available_accounts_for_user(accounts, user_accounts, user_row)
            title == translator_t("statement.period.title", <<"card">>)
            out == IF user_row.id = 0 \/ ~user_allowed_for_menu(user_row)
                   THEN Outcome(users, user_data[sender], "errors.no_access", {}, "",
                                NoCall)
                   ELSE IF /\ acc_key[1] = "id"
                           /\ \A i \in DOMAIN available : available[i].id # acc_key[2]
                   THEN Outcome(users, data, "errors.card_unavailable", {}, "", NoCall)
                   ELSE IF title.raised
                   THEN Outcome(users, data, "", {"ask_statement_period"}, "TypeError",
                                NoCall)
                   ELSE Outcome(users, [data EXCEPT !.stmt_period_pending = acc_key],
                                "statement.period.title", {"ask_statement_period"}, "",
                                NoCall)
        IN Apply("stmt_acc_callback", sender, <<acc_key>>, out)

\* stmt_period_callback: "stmt_per:<mode>"
stmt_period_callback ==
    \E sender \in ChatIds, mode \in StmtModes :
        LET user_row == get_user(users, sender)
            account_key == user_data[sender].stmt_account_key
            data == [user_data[sender] EXCEPT !.stmt_period_pending = NoKey]
            send(from_raw, to_raw) ==
                Outcome(users, data, "", {"generate_and_send_statement"}, "",
                        Call("statement", account_key, unix_from_str(from_raw, FALSE),
                             unix_from_str(to_raw, TRUE)))
            out == IF user_row.id = 0 \/ ~user_allowed_for_menu(user_row)
                   THEN Outcome(users, user_data[sender], "errors.no_access", {}, "",
                                NoCall)
                   ELSE IF account_key = NoKey
                   THEN Outcome(users, user_data[sender], "statement.select_card_first",
                                {}, "", NoCall)
                   ELSE IF mode = "today" THEN send(0, 0)
                   ELSE IF mode = "yesterday" THEN send(0 - 1, 0 - 1)
                   ELSE IF mode = "last3" THEN send(0 - 3, 0)
                   ELSE IF mode = "custom"
                   THEN Outcome(users, [data EXCEPT !.stmt_waiting_dates = TRUE],
                                "period.custom_help", {}, "", NoCall)
                   ELSE Outcome(users, data, "", {}, "", NoCall)
        IN Apply("stmt_period_callback", sender, <<mode>>, out)

\* approve_callback_handler: "approve:<role>:<user_id>", for the roles and
\* users of the buttons pressed
approve_callback_handler(roles, targets) ==
    \E sender \in ChatIds, role \in roles, uid \in targets :
        LET data == user_data[sender]
            out == IF get_user(users, sender).role # "admin"
                   THEN Outcome(users, data, "only_admin", {}, "", NoCall)
                   ELSE IF role \in {"manager", "accountant", "admin"}
                   THEN Outcome(users,
                                [data EXCEPT
                                    !.admin_mode = "approve_set_friendly_name",
                                    !.pending_user_setup =
                                        [NoSetup EXCEPT
                                            !.target_id = uid, !.role = role,
                                            !.suggested_max_days =
                                                IF role = "manager" THEN 7 ELSE 0]],
                                "enter_friendly_name", {}, "", NoCall)
                   ELSE Outcome(update_user_role(users, uid, role,
                                                 IF role = "pending" THEN 3 ELSE 0),
                                data, "role_set", {"update_user_role"}, "", NoCall)
        IN Apply("approve_callback_handler", sender, <<role, uid>>, out)

NextChat ==
    \/ text_handler
    \/ pay_period_callback
    \/ stmt_acc_callback
    \/ stmt_period_callback
    \/ approve_callback_handler({"blocked"}, {2})
    \/ Next

SpecChat == InitChat /\ [][NextChat]_vars

\* the entry points that lead to transactions and balances
EntryHandlers == {"text_handler", "pay_period_callback", "stmt_period_callback"}
Refusals == {"errors.use_start", "errors.pending", "errors.blocked", "errors.no_access"}

\* C36: an update of a chat user without a row, or whose role is pending or
\* blocked, sent to the text handler or to a period callback, is answered by
\* a refusal: no aggregation function and no balance query is executed, no
\* provider call is made and nothing is sent.
C36_InactiveSenderCausesNoProviderCall ==
    (upd.handler \in EntryHandlers /\ upd.role \in {"", "pending", "blocked"}) =>
        /\ upd.executed = {}
        /\ upd.reply \in Refusals
        /\ upd.raised = ""
        /\ pc = "idle"
        /\ events = << >>
        /\ replies = << >>

\* the manager asked for a custom statement period, was blocked by the admin
\* and then typed a valid period: the text is refused
C36_Witness ==
    /\ upd.handler = "text_handler"
    /\ upd.sender = 2
    /\ upd.role = "blocked"
    /\ upd.before.stmt_waiting_dates
    /\ upd.before.stmt_account_key # NoKey
    /\ parse_custom_period_input(upd.data).ok
    /\ upd.reply = "errors.blocked"
    /\ events = << >>

\* a selection waits for a period typed by the user
PendingSelection(data) ==
    /\ data.admin_mode = ""
    /\ \/ data.pay_period_pending # NoKey
       \/ data.stmt_period_pending # NoKey
       \/ data.pay_custom_acc_id # NoKey
       \/ data.stmt_waiting_dates /\ data.stmt_account_key # NoKey

\* C38: when an active user with a pending selection types a text that
\* parse_custom_period_input cannot parse, the text handler replies with the
\* custom-period help, starts no aggregation, makes no provider call and
\* leaves the pending selection in place.
C38_UnparsablePeriodGetsHelp ==
    (/\ upd.handler = "text_handler"
     /\ upd.role \in {"manager", "accountant", "admin"}
     /\ PendingSelection(upd.before)
     /\ upd.data # << >>
     /\ ~parse_custom_period_input(upd.data).ok) =>
        /\ upd.reply = "period.custom_help"
        /\ upd.raised = ""
        /\ upd.executed = {}
        /\ pc = "idle"
        /\ events = << >>
        /\ user_data[upd.sender] = upd.before

(***************************************************************************)
(* The approval dialog alone: the approve callback, then the texts typed   *)
(***************************************************************************)
NextApprove ==
    \/ approve_callback_handler({"manager", "blocked"}, {5})
    \/ text_handler

SpecApprove == InitChat /\ [][NextApprove]_vars

\* the text is a non-negative integer
ValidMaxDays(text) == Len(text) = 1 /\ text[1].kind = "day"

\* C39: in the approval dialog the approve callback for manager, accountant
\* or admin writes nothing; a text writes the target's role, max_days and
\* friendly name only at the max_days step, after a non-empty name was
\* entered, when the text is a non-negative integer, and then the dialog
\* state is cleared; an empty name or an invalid max_days writes nothing and
\* leaves the step and the pending setup unchanged.
C39_RoleWrittenAfterNameAndMaxDays ==
    [][LET sender == upd'.sender
           before == user_data[sender]
           after == user_data'[sender]
           setup == before.pending_user_setup
           text == upd'.data
       IN /\ (/\ upd'.handler = "approve_callback_handler"
              /\ upd'.role = "admin"
              /\ upd'.data[1] \in {"manager", "accountant", "admin"}) =>
                 /\ users' = users
                 /\ after.admin_mode = "approve_set_friendly_name"
          /\ (upd'.handler = "text_handler" /\ upd'.role = "admin") =>
                 /\ users' # users =>
                       /\ before.admin_mode = "approve_set_max_days"
                       /\ setup.named
                       /\ setup.friendly_name # << >>
                       /\ ValidMaxDays(text)
                       /\ users' = [users EXCEPT
                                       ![setup.target_id] =
                                           [@ EXCEPT !.role = setup.role,
                                                     !.max_days = text[1].n,
                                                     !.friendly_name =
                                                         setup.friendly_name]]
                       /\ after.admin_mode = ""
                       /\ after.pending_user_setup = NoSetup
                 /\ (before.admin_mode = "approve_set_friendly_name" /\ text = << >>) =>
                       users' = users /\ user_data' = user_data
                 /\ (/\ before.admin_mode = "approve_set_max_days"
                     /\ setup.named
                     /\ ~ValidMaxDays(text)) =>
                       users' = users /\ user_data' = user_data
                 /\ (/\ before.admin_mode = "approve_set_max_days"
                     /\ setup.named
                     /\ ValidMaxDays(text)) =>
                       /\ upd'.executed = {"update_user_role", "update_user_friendly_name"}
                       /\ users'[setup.target_id].role = setup.role
                       /\ after.admin_mode = ""
                       /\ after.pending_user_setup = NoSetup
      ]_vars

\* the admin approved user 5 as manager, typed an empty name and then a name,
\* typed "-1" and then "2": user 5 is a manager with max_days 2 and the name
C39_Witness ==
    /\ upd.handler = "text_handler"
    /\ upd.sender = 1
    /\ upd.reply = "role_granted"
    /\ upd.before.admin_mode = "approve_set_max_days"
    /\ users[5].role = "manager"
    /\ users[5].max_days = 2
    /\ users[5].friendly_name = <<Word>>
    /\ user_data[1].admin_mode = ""
    /\ user_data[1].pending_user_setup = NoSetup

(***************************************************************************)
(* The spreadsheet (report_xlsx.py:9-198 write_xlsx)                       *)
(***************************************************************************)
\* the longest row list rendered
MaxRows == 3

\* the amounts of the rows, in hundredths: generate_and_send_statement
\* passes amount / 100.0 of the kept transactions, which are never zero, and
\* the sums of a few such floats, rounded to two digits, are the sums of the
\* hundredths
XlsxAmounts == {0 - 300, 500, 700}

\* a row as generate_and_send_statement builds it (bot.py:2408-2426)
XlsxRow(account, amount) ==
    [token_id |-> OrgOf(account), account_id |-> account, amount |-> amount,
     flow |-> IF amount < 0 THEN "out" ELSE "in"]

\* the row lists sorted by (organization, account)
XlsxRowLists ==
    UNION { { rows \in [1..n -> { XlsxRow(a, m) : a \in AccountIds, m \in XlsxAmounts }] :
                \A i \in 1..n : \A j \in 1..n :
                    i < j => \/ rows[i].token_id < rows[j].token_id
                             \/ /\ rows[i].token_id = rows[j].token_id
                                /\ rows[i].account_id <= rows[j].account_id } :
            n \in 1..MaxRows }

\* the locals of write_xlsx before the loop; 0 stands for None
NoSheetState == [sheet |-> << >>, current_row |-> 1,
                 current_token_id |-> 0, token_total_in |-> 0, token_total_out |-> 0,
                 current_account_id |-> 0, account_total_in |-> 0,
                 account_total_out |-> 0]

\* ws.cell(row=current_row, ...) of one line: it replaces what the row held
PutLine(s, kind, value) ==
    [s EXCEPT !.sheet = (s.current_row :>
                            [kind |-> kind, token_id |-> s.current_token_id,
                             account_id |-> IF kind \in {"token_header", "token_in",
                                                         "token_out"}
                                            THEN 0 ELSE s.current_account_id,
                             value |-> value]) @@ s.sheet]

Skip(s, n) == [s EXCEPT !.current_row = s.current_row + n]

\* write_account_total without the reset of the two sums
WriteAccountTotalKeepsSums(s) ==
    IF s.current_account_id = 0 THEN s
    ELSE LET s1 == Skip(PutLine(s, "account_in", s.account_total_in), 1)
         IN IF s.account_total_out # 0
            THEN Skip(PutLine(s1, "account_out", s.account_total_out), 2)
            ELSE IF s.account_total_in = 0 THEN Skip(s1, 0 - 1) ELSE Skip(s1, 1)

\* write_account_total(): the incoming line, the outgoing line when the sum
\* is not zero, a blank line; when both sums are zero the row is given back
write_account_total(s) ==
    IF s.current_account_id = 0 THEN s
    ELSE LET s1 == Skip(PutLine(s, "account_in", s.account_total_in), 1)
             s2 == IF s.account_total_out # 0
                   THEN Skip(PutLine(s1, "account_out", s.account_total_out), 2)
                   ELSE IF s.account_total_in = 0 THEN Skip(s1, 0 - 1)
                   ELSE Skip(s1, 1)
         IN [s2 EXCEPT !.account_total_in = 0, !.account_total_out = 0]

\* write_token_total(): the incoming line, the outgoing line when the sum is
\* not zero, two blank lines
write_token_total(s) ==
    IF s.current_token_id = 0 THEN s
    ELSE LET s1 == Skip(PutLine(s, "token_in", s.token_total_in), 1)
             s2 == IF s.token_total_out # 0
                   THEN Skip(PutLine(s1, "token_out", s.token_total_out), 1)
                   ELSE s1
         IN [Skip(s2, 2) EXCEPT !.token_total_in = 0, !.token_total_out = 0]

\* the body of "for row in rows"
XlsxStep(s, row) ==
    LET a == IF s.current_token_id # 0 /\ row.token_id # s.current_token_id
             THEN [write_token_total(write_account_total(s)) EXCEPT
                      !.current_account_id = 0]
             ELSE s
        b == IF a.current_token_id # row.token_id
             THEN Skip(PutLine([a EXCEPT !.current_token_id = row.token_id],
                               "token_header", 0), 2)
             ELSE a
        c == IF b.current_account_id # 0 /\ row.account_id # b.current_account_id
             THEN write_account_total(b)
             ELSE b
        d == IF c.current_account_id # row.account_id
             THEN LET h == Skip(PutLine([c EXCEPT !.current_account_id = row.account_id],
                                        "account_header", 0), 1)
                  IN Skip(PutLine(h, "table_header", 0), 1)
             ELSE c
        e == Skip(PutLine(d, "operation", row.amount), 1)
    IN IF row.flow = "out"
       THEN [e EXCEPT !.account_total_out = @ + row.amount,
                      !.token_total_out = @ + row.amount]
       ELSE [e EXCEPT !.account_total_in = @ + row.amount,
                      !.token_total_in = @ + row.amount]

RECURSIVE XlsxLoop(_, _)
XlsxLoop(s, rows) ==
    IF rows = << >> THEN s ELSE XlsxLoop(XlsxStep(s, Head(rows)), Tail(rows))

\* write_xlsx(output_path, rows): the lines of the sheet by row number
write_xlsx(rows) ==
    write_token_total(write_account_total(XlsxLoop(NoSheetState, rows))).sheet

InitXlsx ==
    /\ xlsx \in { [NoSheet EXCEPT !.rows = rows] : rows \in XlsxRowLists }
    /\ user_data = << >>
    /\ upd = NoUpdate
    /\ users = UsersTable
    /\ accounts = AllActive
    /\ organizations = << >>
    /\ user_accounts = << >>
    /\ ignore_counter_iban = {}
    /\ avail = NoAvail
    /\ req = [mode |-> "statement", user_id |-> 0, key_kind |-> "all", key_id |-> 0,
              from_ts |-> 0, to_ts |-> 0]
    /\ pc = "idle"
    /\ loc = NoLoc
    /\ tz = "UTC"
    /\ tasks = NoTasks
    /\ replies = << >>
    /\ action_log = << >>
    /\ events = << >>
    /\ raised = ""
    /\ PermIdle
    /\ FetchIdle
    /\ FilterIdle
    /\ LimIdle

\* the call of write_xlsx
DoXlsx ==
    /\ ~xlsx.done
    /\ xlsx' = [xlsx EXCEPT !.done = TRUE, !.sheet = write_xlsx(xlsx.rows)]
    /\ UNCHANGED <<dbVars, avail, fetchVars, filterVars, permVars, limVars, aggVars, tz,
                   tasks, chatVars>>

NextXlsx == DoXlsx

SpecXlsx == InitXlsx /\ [][NextXlsx]_vars

\* the sum of the amounts of the rows of one organization (and one account,
\* unless account is 0) with one flow
RECURSIVE XlsxSum(_, _, _, _)
XlsxSum(rows, token, account, flow) ==
    IF rows = << >> THEN 0
    ELSE (IF /\ Head(rows).token_id = token
             /\ account \in {0, Head(rows).account_id}
             /\ Head(rows).flow = flow
          THEN Head(rows).amount ELSE 0)
         + XlsxSum(Tail(rows), token, account, flow)

\* the lines of one kind written for an organization and an account
XlsxLines(kind, token, account) ==
    { r \in DOMAIN xlsx.sheet :
        /\ xlsx.sheet[r].kind = kind
        /\ xlsx.sheet[r].token_id = token
        /\ xlsx.sheet[r].account_id = account }

\* one line of the kind with the value, or none when the value is zero and
\* the line may be left out
XlsxTotalIs(kind, token, account, value, may_omit) ==
    \/ /\ Cardinality(XlsxLines(kind, token, account)) = 1
       /\ \A r \in XlsxLines(kind, token, account) : xlsx.sheet[r].value = value
    \/ /\ may_omit
       /\ value = 0
       /\ XlsxLines(kind, token, account) = {}

\* C32: for rows sorted by (organization, account) the sheet has one
\* organization header per organization of the rows and one account header
\* per account of the rows; each account's incoming and outgoing subtotals
\* are the sums of its rows with flow in and out (the outgoing line is left
\* out when its sum is zero), and each organization's subtotals are the sums
\* of the subtotals of its accounts.
C32_SubtotalsAndHeaders ==
    xlsx.done =>
        LET rows == xlsx.rows
            tokens == { rows[i].token_id : i \in DOMAIN rows }
            accs(t) == { rows[i].account_id : i \in { j \in DOMAIN rows :
                                                         rows[j].token_id = t } }
        IN /\ \A t \in OrgIds :
                 Cardinality(XlsxLines("token_header", t, 0))
                     = IF t \in tokens THEN 1 ELSE 0
           /\ \A t \in OrgIds : \A a \in AccountIds :
                 Cardinality(XlsxLines("account_header", t, a))
                     = IF t \in tokens /\ a \in accs(t) THEN 1 ELSE 0
           /\ \A t \in tokens : \A a \in accs(t) :
                 /\ XlsxTotalIs("account_in", t, a, XlsxSum(rows, t, a, "in"), FALSE)
                 /\ XlsxTotalIs("account_out", t, a, XlsxSum(rows, t, a, "out"), TRUE)
           /\ \A t \in tokens :
                 /\ XlsxTotalIs("token_in", t, 0, XlsxSum(rows, t, 0, "in"), FALSE)
                 /\ XlsxTotalIs("token_out", t, 0, XlsxSum(rows, t, 0, "out"), TRUE)
                 /\ \A flow \in {"in", "out"} :
                       XlsxSum(rows, t, 0, flow)
                           = XlsxSum(rows, t, 1, flow) + XlsxSum(rows, t, 2, flow)
                             + XlsxSum(rows, t, 3, flow)

\* a sheet of two organizations, the first with an account that has an
\* incoming and an outgoing row
C32_Witness ==
    /\ xlsx.done
    /\ Len(xlsx.rows) = 3
    /\ xlsx.rows[1].account_id = 1 /\ xlsx.rows[1].flow = "in"
    /\ xlsx.rows[2].account_id = 1 /\ xlsx.rows[2].flow = "out"
    /\ xlsx.rows[3].token_id = 2
    /\ XlsxLines("account_out", 1, 1) # {}
    /\ XlsxLines("token_in", 2, 0) # {}

====
